---- MODULE Spec2Model ----
(***************************************************************************)
(* A model of async-zmq: the readiness-integrated core (tokio-zmq, "Core   *)
(* A") and the multiplexed core (futures-zmq, "Core B": the poll thread,   *)
(* its request channel with the self-pipe wakeup, and the sinks built on   *)
(* SendState).                                                             *)
(*                                                                         *)
(* The specifications share the definitions below:                         *)
(*   SpecSink    one sink of either core driving one native socket;        *)
(*   SpecDrop    the same sink, which may be dropped at any time;          *)
(*   SpecStream  a sink-stream of either core, the peer's multiparts       *)
(*               arriving frame by frame;                                  *)
(*   SpecOneShot one send or recv future of either core;                   *)
(*   SpecWake    producer threads and the poll thread at the granularity   *)
(*               of Sender::send (enqueue, swap_true, write) and           *)
(*               Receiver::drain (read, swap_false);                       *)
(*   SpecCancel  requesters that make raw Session::send / Session::recv    *)
(*               calls on one socket and drop the futures they got.        *)
(***************************************************************************)
EXTENDS Integers, Sequences, FiniteSets, TLC

\* ------------------------------------------------------------------ bounds
MaxFrames == 2     \* frames of one multipart
MaxAccept == 2     \* multiparts offered to a sink in one run
MaxBuf == 2        \* largest buffer_size tried
MaxQuota == 2      \* frames the native socket takes in one attempt before EAGAIN
MaxReq == 3        \* one-shot reply channels created in one run
MaxSock == 2       \* sockets registered in one run
MaxInq == 1        \* multiparts the peer delivers in one run
MaxPending == 2    \* raw Session::send / Session::recv calls in one run
NProd == 2         \* producer threads
MaxRefs == 2       \* live clones of one socket handle
MaxDeliver == 2    \* frames the peer sends to a stream or recv future in one run
PeerFrames == 2    \* frames of one multipart of the peer
MaxDuplex == 3     \* reply channels of a run with a receive and sends on one socket
MaxMultiparts == 2 \* multiparts the peer sends to a socket with raw receive requests

VARIABLES
    core,           \* "A" (tokio-zmq) or "B" (futures-zmq): the core the program uses
    buffer_size,    \* the sink's buffer_size
    pending,        \* Core A SinkType.pending
    state,          \* Core B MultipartSink.state (SendState)
    multiparts,     \* Core B MultipartSink.multiparts
    send_buffer,    \* the buffer_size the Core B Socket passes to Session::send
    accepted,       \* history: the multiparts start_send accepted, in order
    nextId,         \* history: number of multiparts offered to start_send so far
    ret,            \* history: what the last sink call returned
    wire,           \* per native socket: the frames handed to it, with their flags
    pollout,        \* per native socket: the event mask reports POLLOUT
    inq,            \* per native socket: complete multiparts waiting to be received
    delivered,      \* history: number of multiparts the peer delivered
    failed,         \* history: per native socket, a send returned a terminal error
    ready,          \* Channel.ready
    pipe,           \* unread bytes in the self-pipe (Channel.tx -> Channel.rx)
    chan,           \* the mpsc request channel
    writes,         \* history: bytes written to the pipe since the last swap_false
    pc,             \* the poll thread's position in PollThread::turn
    should_stop,    \* PollThread.should_stop
    sockets,        \* PollThread.sockets
    next_sock_id,   \* PollThread.next_sock_id
    oneshot,        \* the one-shot reply channels, by number
    prod,           \* per producer thread: its position in Sender::send
    refs,           \* per socket id: live clones of the SockId (the Arc's count)
    sessions,       \* live clones of the Session (the Arc<InnerSession>'s count)
    emitted,        \* history: per socket id, DropSocket requests sent
    removed,        \* history: socket ids whose DropSocket the poll thread handled
    rstate,         \* Core B RecvState of the stream / MultipartResponse
    working,        \* Core A working multipart (StreamType / one-shot futures)
    future,         \* a one-shot future: its kind, its socket, its Option<Socket>
    alive,          \* the sink has not been dropped
    diag,           \* history: diagnostics (error! lines) emitted by drops
    yielded,        \* history: the multiparts the stream or future has yielded
    sink_task,      \* Core A MultipartSinkStream.sink_task
    stream_task     \* Core A MultipartSinkStream.stream_task

sinkVars == <<core, buffer_size, pending, state, multiparts, send_buffer, accepted, nextId, ret>>
natVars == <<wire, pollout, inq, delivered, failed>>
chanVars == <<ready, pipe, chan, writes>>
workVars == <<pc, should_stop, sockets, next_sock_id>>
handleVars == <<prod, refs, sessions, emitted, removed>>
taskVars == <<sink_task, stream_task>>
moreVars == <<rstate, working, future, alive, diag, yielded, taskVars>>
vars == <<sinkVars, natVars, chanVars, workVars, oneshot, handleVars, moreVars>>

SockIds == 0..(MaxSock - 1)
Procs == 1..NProd

\* --------------------------------------------------------------- multiparts
\* A frame is <<k, j>>: frame j of the k-th multipart offered.
NewMultipart(k, n) == [j \in 1..n |-> <<k, j>>]

\* What the native socket is handed for one frame: the payload and SNDMORE.
Sent(msg, more) == [data |-> msg, more |-> more]

IsPrefix(s, t) == Len(s) <= Len(t) /\ \A i \in 1..Len(s) : s[i] = t[i]

PushFront(q, x) == <<x>> \o q

\* ======================================================================
\* Core A: tokio-zmq
\* ======================================================================

\* An attempt on the native socket: it takes q frames, and the send after those
\* returns e, EAGAIN or a terminal error.
Outcomes == {"EAGAIN", "ERR"}

\* What ends a round of Pollable::recv_msg: EAGAIN, EFSM (the socket is not in
\* a state to receive) or a terminal error.
RecvOutcomes == Outcomes \cup {"EFSM"}

\* A slip: EAGAIN is treated as any other error of the native send.
send_msg_A_strict(msg, last, q, e) ==
    IF q > 0
    THEN [res |-> "Ok", back |-> <<>>, out |-> <<Sent(msg, ~last)>>]
    ELSE [res |-> "Err", back |-> <<>>, out |-> <<>>]

\* request::send_msg: flags = DONTWAIT | SNDMORE unless last. Ok(None) when the
\* native send takes the frame, Ok(Some(clone)) on EAGAIN, Err otherwise.
send_msg_A(msg, last, q, e) ==
    IF q > 0
    THEN [res |-> "Ok", back |-> <<>>, out |-> <<Sent(msg, ~last)>>]
    ELSE IF e = "EAGAIN"
         THEN [res |-> "Ok", back |-> <<msg>>, out |-> <<>>]
         ELSE [res |-> "Err", back |-> <<>>, out |-> <<>>]

RECURSIVE send_A(_, _, _)
\* request::send: pops frames off the front until the multipart is empty (Ready),
\* a frame comes back (pushed to the front again, NotReady) or the send fails.
send_A(multipart, q, e) ==
    IF multipart = <<>>
    THEN [res |-> "Ready", rest |-> <<>>, out |-> <<>>]
    ELSE LET msg == Head(multipart)
             rest == Tail(multipart)
             r == send_msg_A(msg, rest = <<>>, q, e)
         IN IF r.res = "Err"
            THEN [res |-> "Err", rest |-> rest, out |-> <<>>]
            ELSE IF r.back # <<>>
            THEN [res |-> "NotReady", rest |-> PushFront(rest, r.back[1]), out |-> <<>>]
            ELSE LET s == send_A(rest, q - 1, e)
                 IN [s EXCEPT !.out = r.out \o s.out]

\* request::poll_write_ready: reads the event mask (w is its POLLOUT bit) and
\* clears the reactor's write readiness when the bit is not set. calls lists
\* the calls made on the socket and on the reactor's file, in order.
poll_write_ready_A(w) ==
    IF w
    THEN [res |-> "Ready", calls |-> <<"get_events">>]
    ELSE [res |-> "NotReady", calls |-> <<"get_events", "clear_write_ready">>]

\* A slip: the native send is attempted whatever the event mask says.
request_poll_blind(multipart, w, q, e) ==
    LET p == poll_write_ready_A(w)
        s == send_A(multipart, q, e)
    IN s @@ [calls |-> <<"file.poll_write_ready">> \o p.calls \o <<"send">>,
             notified |-> FALSE]

\* request::poll: file.poll_write_ready arms the reactor, then the event mask
\* is read; without POLLOUT nothing is sent. A send that comes back NotReady
\* clears the write readiness. notified tells whether the current task was
\* notified: no arm of request::poll does so.
request_poll(multipart, w, q, e) ==
    LET p == poll_write_ready_A(w)
        armed == <<"file.poll_write_ready">> \o p.calls
    IN IF p.res = "NotReady"
       THEN [res |-> "NotReady", rest |-> multipart, out |-> <<>>, calls |-> armed,
             notified |-> FALSE]
       ELSE LET s == send_A(multipart, q, e)
            IN s @@ [calls |-> armed \o <<"send">> \o
                               (IF s.res = "NotReady" THEN <<"clear_write_ready">>
                                                      ELSE <<>>),
                     notified |-> FALSE]

\* A slip: the unsent multipart goes to the back of the queue.
Requeue_A_back(q, multipart) == Append(q, multipart)

\* Where SinkType::poll_complete puts a multipart that is not fully sent.
Requeue_A(q, multipart) == PushFront(q, multipart)

RECURSIVE poll_complete_A(_, _, _, _)
\* SinkType::poll_complete. An error leaves through `?`: the multipart popped
\* for this round is a local and is dropped with what is left of it.
poll_complete_A(pend, w, q, e) ==
    IF pend = <<>>
    THEN [res |-> "Ready", pending |-> <<>>, out |-> <<>>]
    ELSE LET r == request_poll(Head(pend), w, q, e)
         IN IF r.res = "Ready"
            THEN LET s == poll_complete_A(Tail(pend), w, q - Len(r.out), e)
                 IN [s EXCEPT !.out = r.out \o s.out]
            ELSE IF r.res = "Err"
            THEN [res |-> "Err", pending |-> Tail(pend), out |-> r.out]
            ELSE [res |-> "NotReady", pending |-> Requeue_A(Tail(pend), r.rest),
                  out |-> r.out]

\* The back-pressure test of SinkType::start_send.
IsFull_A(pend, k) == Len(pend) > 0 /\ Len(pend) > k

\* SinkType::start_send
start_send_A(pend, k, multipart, w, q, e) ==
    LET r == poll_complete_A(pend, w, q, e)
    IN IF r.res = "Err"
       THEN [res |-> "Err", item |-> <<>>, pending |-> r.pending,
             after_poll |-> r.pending, out |-> r.out]
       ELSE IF IsFull_A(r.pending, k)
       THEN [res |-> "NotReady", item |-> <<multipart>>, pending |-> r.pending,
             after_poll |-> r.pending, out |-> r.out]
       ELSE [res |-> "Ready", item |-> <<>>, pending |-> Append(r.pending, multipart),
             after_poll |-> r.pending, out |-> r.out]

\* ======================================================================
\* Core B: futures-zmq, the poll thread
\* ======================================================================

None == 0  \* Option::None of a stored responder (reply channels are numbered from 1)

NoResponse == [type |-> "None", m |-> <<>>]
Response(type, m) == [type |-> type, m |-> m]

\* Request::{Init, SendMessage, ReceiveMessage, DropSocket, Done}
Request(type, id, m, bs, resp) == [type |-> type, id |-> id, m |-> m, bs |-> bs, resp |-> resp]

\* PollKind::as_events
as_events(kind) ==
    CASE kind = "SendMsg" -> {"POLLOUT"}
      [] kind = "RecvMsg" -> {"POLLIN"}
      [] kind = "SendRecv" -> {"POLLIN", "POLLOUT"}
      [] OTHER -> {}

is_read(kind) == "POLLIN" \in as_events(kind)
is_write(kind) == "POLLOUT" \in as_events(kind)

\* A slip: read leaves the arm as it is.
kind_read_none(kind) == kind

\* PollKind::read
kind_read(kind) == IF kind = "SendMsg" THEN "SendRecv" ELSE "RecvMsg"

\* A slip: clear_read disarms the socket altogether.
kind_clear_read_all(kind) == "UNUSED"

\* PollKind::clear_read
kind_clear_read(kind) == IF kind \in {"SendRecv", "SendMsg"} THEN "SendMsg" ELSE "UNUSED"

\* PollKind::write
kind_write(kind) == IF kind = "RecvMsg" THEN "SendRecv" ELSE "SendMsg"

\* PollKind::clear_write
kind_clear_write(kind) == IF kind \in {"SendRecv", "RecvMsg"} THEN "RecvMsg" ELSE "UNUSED"

\* Pollable::new
Pollable_new ==
    [kind |-> "UNUSED", msg |-> <<>>, pending_recv_msg |-> <<>>,
     send_responder |-> None, recv_responder |-> None]

\* A slip: a queue holding buffer_size multiparts takes one more.
message_over(p, msg, bs) ==
    IF Len(p.msg) <= bs
    THEN [p |-> [p EXCEPT !.msg = Append(p.msg, msg)], back |-> <<>>]
    ELSE [p |-> p, back |-> <<msg>>]

\* Pollable::message: the multipart comes back when the queue is full.
message(p, msg, bs) ==
    IF Len(p.msg) < bs
    THEN [p |-> [p EXCEPT !.msg = Append(p.msg, msg)], back |-> <<>>]
    ELSE [p |-> p, back |-> <<msg>>]

\* self.send_responder.take().unwrap().send(resp): with no responder stored the
\* unwrap panics.
respond_send(p, resp) ==
    IF p.send_responder = None
    THEN [p |-> p, out |-> <<>>, reply |-> <<>>, panic |-> TRUE, err |-> FALSE]
    ELSE [p |-> [p EXCEPT !.send_responder = None], out |-> <<>>,
          reply |-> <<<<p.send_responder, resp>>>>, panic |-> FALSE, err |-> FALSE]

\* A slip: the frame that met EAGAIN is not put back.
Requeue_B_lost(q, rest, msg) == PushFront(q, rest)

\* Where Pollable::send_msg puts the frame that met EAGAIN, and its multipart.
Requeue_B(q, rest, msg) == PushFront(q, PushFront(rest, msg))

RECURSIVE send_msg_B(_, _, _)
\* Pollable::send_msg: the native socket takes q frames, then answers e.
send_msg_B(p, q, e) ==
    IF p.msg = <<>>
    THEN [p |-> [p EXCEPT !.kind = kind_clear_write(p.kind)], out |-> <<>>,
          reply |-> <<>>, panic |-> FALSE, err |-> FALSE]
    ELSE LET multipart == Head(p.msg)
             queue == Tail(p.msg)
         IN IF multipart = <<>>
            THEN send_msg_B([p EXCEPT !.msg = queue], q, e)
            ELSE LET msg == Head(multipart)
                     rest == Tail(multipart)
                     flags == rest # <<>>
                 IN IF q > 0
                    THEN IF rest # <<>>
                         THEN LET s == send_msg_B([p EXCEPT !.msg = PushFront(queue, rest)], q - 1, e)
                              IN [s EXCEPT !.out = <<Sent(msg, flags)>> \o s.out]
                         ELSE IF queue # <<>>
                         THEN LET s == send_msg_B([p EXCEPT !.msg = queue], q - 1, e)
                              IN [s EXCEPT !.out = <<Sent(msg, flags)>> \o s.out]
                         ELSE LET s == respond_send([p EXCEPT !.msg = queue,
                                                       !.kind = kind_clear_write(p.kind)],
                                                    Response("Sent", <<>>))
                              IN [s EXCEPT !.out = <<Sent(msg, flags)>>]
                    ELSE IF e = "EAGAIN"
                         THEN [p |-> [p EXCEPT !.msg = Requeue_B(queue, rest, msg)],
                               out |-> <<>>, reply |-> <<>>, panic |-> FALSE,
                               err |-> FALSE]
                         ELSE [respond_send([p EXCEPT !.msg = queue,
                                               !.kind = kind_clear_write(p.kind)],
                                            Response("Error", <<>>))
                               EXCEPT !.err = TRUE]

RECURSIVE recv_messages(_, _, _, _)
\* The loops of Pollable::recv_msg. avail is what the native socket holds, frame
\* by frame; multipart is the local the frames read so far are pushed to. Once
\* avail is read the socket answers e. A whole multipart goes to the stored
\* responder, if there is one, else to pending_recv_msg, and the local starts
\* empty again. On EAGAIN and on EFSM the loops are left and the local is
\* dropped with the frames it holds; any other error is also sent to the
\* stored responder.
recv_messages(p, avail, multipart, e) ==
    IF avail = <<>>
    THEN LET p1 == [p EXCEPT !.kind = kind_clear_read(p.kind)]
         IN IF e \in {"EAGAIN", "EFSM"} \/ p1.recv_responder = None
            THEN [p |-> p1, out |-> <<>>, reply |-> <<>>, panic |-> FALSE,
                  err |-> e = "ERR"]
            ELSE [p |-> [p1 EXCEPT !.recv_responder = None], out |-> <<>>,
                  reply |-> <<<<p1.recv_responder, Response("Error", <<>>)>>>>,
                  panic |-> FALSE, err |-> TRUE]
    ELSE LET msg == Head(avail)
             pushed == Append(multipart, msg.data)
         IN IF msg.more
            THEN recv_messages(p, Tail(avail), pushed, e)
            ELSE LET p1 == [p EXCEPT !.kind = kind_clear_read(p.kind)]
                 IN IF p1.recv_responder # None
                    THEN LET s == recv_messages([p1 EXCEPT !.recv_responder = None],
                                                Tail(avail), <<>>, e)
                         IN [s EXCEPT !.reply = <<<<p1.recv_responder,
                                                    Response("Received", pushed)>>>> \o s.reply]
                    ELSE recv_messages([p1 EXCEPT !.pending_recv_msg = Append(@, pushed)],
                                       Tail(avail), <<>>, e)

\* A slip: the frames the native socket holds are read newest first.
recv_msg_newest_first(p, avail, e) ==
    recv_messages(p, [i \in 1..Len(avail) |-> avail[Len(avail) + 1 - i]], <<>>, e)

\* Pollable::recv_msg: each multipart starts from Multipart::new().
recv_msg(p, avail, e) == recv_messages(p, avail, <<>>, e)

\* ------------------------------------------------------- one-shot channels
\* oneshot::channel()
NewOneshot == [rx |-> "live", tx |-> "held", val |-> NoResponse, task |-> FALSE]

\* oneshot::Sender::send: the value reaches the receiver unless it was dropped.
Deliver(os, o, resp) ==
    IF os[o].rx = "live"
    THEN [os EXCEPT ![o].val = resp, ![o].tx = "sent"]
    ELSE [os EXCEPT ![o].tx = "dropped"]

RECURSIVE DeliverAll(_, _)
DeliverAll(os, replies) ==
    IF replies = <<>> THEN os
    ELSE DeliverAll(Deliver(os, replies[1][1], replies[1][2]), Tail(replies))

\* A responder dropped without an answer: the receiver will see Canceled.
DropTx(os, o) == IF o = None THEN os ELSE [os EXCEPT ![o].tx = "dropped"]

\* Channel::notify run in one step: swap_true, and the byte if the flag was false.
NotifiedReady == TRUE
NotifiedPipe(rdy, bytes) == IF rdy THEN bytes ELSE bytes + 1
NotifiedWrites(rdy, n) == IF rdy THEN n ELSE n + 1

\* ======================================================================
\* Core B: futures-zmq, SendState and the sinks
\* ======================================================================

\* SendState::{Ready, Pending(multipart), Running(fut), Polling}
SendState(tag, m, fut) == [tag |-> tag, m |-> m, fut |-> fut]
StReady == SendState("Ready", <<>>, None)
StPolling == SendState("Polling", <<>>, None)

\* What a tick hands back: the result, the new state, the reply channels, the
\* requests put on the channel and whether Channel::notify ran.
Tick(res, st, os, reqs, notified) ==
    [res |-> res, state |-> st, os |-> os, reqs |-> reqs, notified |-> notified]

\* Dropping a SendFuture drops its oneshot::Receiver, which notifies the task
\* the sender parked in poll_cancel (NotifyCanceled::notify).
DropRx(os, o) == [os EXCEPT ![o].rx = "dropped", ![o].task = FALSE]

\* A slip: a Full reply is taken for Sent, and its multipart is let go.
poll_fut_full_as_sent(os, o) ==
    CASE os[o].val.type \in {"Sent", "Full"} ->
            Tick("Ready", StReady, DropRx(os, o), <<>>, os[o].task)
      [] os[o].val.type = "Error" ->
            Tick("Err", StPolling, DropRx(os, o), <<>>, os[o].task)
      [] os[o].val.type = "None" /\ os[o].tx = "dropped" ->
            Tick("Err", StPolling, DropRx(os, o), <<>>, os[o].task)
      [] OTHER ->
            Tick("NotReady", SendState("Running", <<>>, o), os, <<>>, FALSE)

\* SendState::poll_fut on a future already submitted (SendFuture::poll). An
\* error leaves through `?` with the state still Polling.
poll_fut(os, o) ==
    CASE os[o].val.type = "Sent" ->
            Tick("Ready", StReady, DropRx(os, o), <<>>, os[o].task)
      [] os[o].val.type = "Full" ->
            Tick("NotReady", SendState("Pending", os[o].val.m, None), DropRx(os, o),
                 <<>>, os[o].task)
      [] os[o].val.type = "Error" ->
            Tick("Err", StPolling, DropRx(os, o), <<>>, os[o].task)
      [] os[o].val.type = "None" /\ os[o].tx = "dropped" ->
            Tick("Err", StPolling, DropRx(os, o), <<>>, os[o].task)
      [] OTHER ->
            Tick("NotReady", SendState("Running", <<>>, o), os, <<>>, FALSE)

\* Socket::send_msg of futures-zmq: Session::send with the socket's id and the
\* buffer size the socket was built with; o is the new reply channel.
Socket_send_msg(id, multipart, bs, o) == Request("SendMessage", id, multipart, bs, o)

\* A slip: a tick entered with the state Polling takes it for Ready.
poll_flush_unguarded(st, os, id, bs) ==
    CASE st.tag = "Pending" ->
            LET o == Len(os) + 1
            IN Tick("NotReady", SendState("Running", <<>>, o), Append(os, NewOneshot),
                    <<Socket_send_msg(id, st.m, bs, o)>>, TRUE)
      [] st.tag = "Running" -> poll_fut(os, st.fut)
      [] OTHER -> Tick("Ready", StReady, os, <<>>, FALSE)

\* SendState::poll_flush. Pending(multipart): sock.send_msg(multipart) submits
\* a SendMessage and the new future is polled at once, before the poll thread
\* can have answered. Entered with the state Polling it returns Error::Polling,
\* the result "Polling" here.
poll_flush(st, os, id, bs) ==
    CASE st.tag = "Ready" -> Tick("Ready", StReady, os, <<>>, FALSE)
      [] st.tag = "Pending" ->
            LET o == Len(os) + 1
            IN Tick("NotReady", SendState("Running", <<>>, o), Append(os, NewOneshot),
                    <<Socket_send_msg(id, st.m, bs, o)>>, TRUE)
      [] st.tag = "Running" -> poll_fut(os, st.fut)
      [] OTHER -> Tick("Polling", StPolling, os, <<>>, FALSE)

\* The multipart MultipartSink::poll_complete seeds the send state with next.
Seed_B(mps) == Head(mps)
Unseeded_B(mps) == Tail(mps)

RECURSIVE seed_loop(_, _, _, _, _)
\* The while loop of MultipartSink::poll_complete, entered with the state Ready.
seed_loop(mps, os, id, bs, acc) ==
    IF mps = <<>>
    THEN [acc EXCEPT !.res = "Ready", !.state = StReady, !.os = os] @@ [multiparts |-> mps]
    ELSE LET t == poll_flush(SendState("Pending", Seed_B(mps), None), os, id, bs)
             acc1 == [t EXCEPT !.reqs = acc.reqs \o t.reqs,
                               !.notified = acc.notified \/ t.notified]
         IN IF t.res = "Ready"
            THEN seed_loop(Unseeded_B(mps), t.os, id, bs, acc1)
            ELSE acc1 @@ [multiparts |-> Unseeded_B(mps)]

\* A slip: a flush that finds the send state Ready wakes the poll thread.
poll_complete_B_wakes(st, mps, os, id, bs) ==
    LET t == poll_flush(st, os, id, bs)
    IN IF t.res = "Ready"
       THEN seed_loop(mps, t.os, id, bs, [t EXCEPT !.notified = TRUE])
       ELSE t @@ [multiparts |-> mps]

\* MultipartSink::poll_complete and MultipartSinkStream::poll_complete
poll_complete_B(st, mps, os, id, bs) ==
    LET t == poll_flush(st, os, id, bs)
    IN IF t.res = "Ready"
       THEN seed_loop(mps, t.os, id, bs, t)
       ELSE t @@ [multiparts |-> mps]

\* The back-pressure test of MultipartSink::start_send.
IsFull_B(mps, k) == Len(mps) >= k

\* MultipartSink::start_send and MultipartSinkStream::start_send
start_send_B(st, mps, k, multipart, os, id, bs) ==
    LET t == poll_complete_B(st, mps, os, id, bs)
        base == t @@ [after_poll |-> t.multiparts]
    IN IF t.res \in {"Err", "Polling"}
       THEN base @@ [item |-> <<>>]
       ELSE IF IsFull_B(t.multiparts, k)
       THEN [base EXCEPT !.res = "NotReady"] @@ [item |-> <<multipart>>]
       ELSE [base EXCEPT !.res = "Ready", !.multiparts = Append(t.multiparts, multipart)]
            @@ [item |-> <<>>]

\* ======================================================================
\* Core B: futures-zmq, RecvState and the streams
\* ======================================================================

\* RecvState::{Pending, Running(fut), Polling}
RecvState(tag, fut) == [tag |-> tag, fut |-> fut]
RsPending == RecvState("Pending", None)
RsPolling == RecvState("Polling", None)

\* What a receive tick hands back: a Tick and the multipart, if one came.
Fetched(t, m) == t @@ [m |-> m]

\* RecvState::poll_fut on a future already submitted (RecvFuture::poll). An
\* error leaves through `?` with the state still Polling.
recv_poll_fut(os, o) ==
    CASE os[o].val.type = "Received" ->
            Fetched(Tick("Ready", RsPending, DropRx(os, o), <<>>, os[o].task),
                    os[o].val.m)
      [] os[o].val.type = "Error" ->
            Fetched(Tick("Err", RsPolling, DropRx(os, o), <<>>, os[o].task), <<>>)
      [] os[o].val.type = "None" /\ os[o].tx = "dropped" ->
            Fetched(Tick("Err", RsPolling, DropRx(os, o), <<>>, os[o].task), <<>>)
      [] OTHER ->
            Fetched(Tick("NotReady", RecvState("Running", o), os, <<>>, FALSE), <<>>)

\* Socket::recv_msg of futures-zmq: Session::recv with the socket's id; o is
\* the new reply channel.
Socket_recv_msg(id, o) == Request("ReceiveMessage", id, <<>>, 0, o)

\* RecvState::poll_fetch. Pending: sock.recv_msg() submits a ReceiveMessage and
\* the new future is polled at once. Entered with the state Polling it returns
\* Error::Polling.
poll_fetch(st, os, id) ==
    CASE st.tag = "Pending" ->
            LET o == Len(os) + 1
            IN Fetched(Tick("NotReady", RecvState("Running", o), Append(os, NewOneshot),
                            <<Socket_recv_msg(id, o)>>, TRUE), <<>>)
      [] st.tag = "Running" -> recv_poll_fut(os, st.fut)
      [] OTHER -> Fetched(Tick("Polling", RsPolling, os, <<>>, FALSE), <<>>)

\* Option::None of a future's socket (socket ids are numbered from 0).
NoSock == -1

\* A slip: the stream reports its end instead of the item.
Some_ended(x) == <<>>

\* Option::Some of what a stream's poll yields; <<>> is Option::None, the end
\* of the stream.
Some(x) == <<x>>

\* ======================================================================
\* The streams
\* ======================================================================

RECURSIVE recv_A(_, _, _, _)
\* response::recv of tokio-zmq: frames are pushed to the caller's multipart
\* until one comes without the more flag. avail is what the native socket hands
\* over before it answers e; used counts the frames taken from it.
recv_A(multipart, avail, e, used) ==
    IF avail = <<>>
    THEN [res |-> IF e = "EAGAIN" THEN "NotReady" ELSE "Err",
          multipart |-> multipart, m |-> <<>>, used |-> used]
    ELSE LET msg == Head(avail)
             pushed == Append(multipart, msg.data)
         IN IF ~msg.more
            THEN [res |-> "Ready", multipart |-> <<>>, m |-> pushed, used |-> used + 1]
            ELSE recv_A(pushed, Tail(avail), e, used + 1)

\* response::poll_read_ready: reads the event mask (pollin is its POLLIN bit)
\* and clears the reactor's read readiness when the bit is not set.
poll_read_ready_A(pollin) ==
    IF pollin
    THEN [res |-> "Ready", calls |-> <<"get_events">>]
    ELSE [res |-> "NotReady", calls |-> <<"get_events", "clear_read_ready">>]

\* response::poll: file.poll_read_ready arms the reactor, then the event mask
\* is read; without POLLIN nothing is read. A recv that returns Ready notifies
\* the current task; one that comes back NotReady clears the read readiness.
response_poll(multipart, pollin, avail, e) ==
    LET p == poll_read_ready_A(pollin)
        armed == <<"file.poll_read_ready">> \o p.calls
    IN IF p.res = "NotReady"
       THEN [res |-> "NotReady", multipart |-> multipart, m |-> <<>>, used |-> 0,
             calls |-> armed, notified |-> FALSE]
       ELSE LET s == recv_A(multipart, avail, e, 0)
            IN s @@ [calls |-> armed \o <<"recv">> \o
                               (IF s.res = "NotReady" THEN <<"clear_read_ready">>
                                                      ELSE <<>>),
                     notified |-> s.res = "Ready"]

\* StreamType::poll of tokio-zmq
StreamType_poll(multipart, pollin, avail, e) ==
    LET r == response_poll(multipart, pollin, avail, e)
    IN r @@ [item |-> IF r.res = "Ready" THEN Some(r.m) ELSE <<>>]

\* MultipartStream::poll and the Stream::poll of MultipartSinkStream
MultipartStream_poll(st, os, id) ==
    LET t == poll_fetch(st, os, id)
    IN t @@ [item |-> IF t.res = "Ready" THEN Some(t.m) ELSE <<>>]

\* ======================================================================
\* The one-shot futures
\* ======================================================================

\* A future made with socket s: MultipartRequest::new / MultipartResponse::new.
NewFuture(kind, s) == [kind |-> kind, of |-> s, sock |-> s]

\* self.socks.take(): the future is left without its socket.
Take(f) == [f EXCEPT !.sock = NoSock]

\* A slip: the socket is not put back when the poll is NotReady.
Restore_none(f, sock) == [f EXCEPT !.sock = NoSock]

\* self.socks = Some(sock), the NotReady arm of the futures' poll.
Restore(f, sock) == [f EXCEPT !.sock = sock]

\* A slip: a future polled without its socket goes on.
Taken_A_ok(f) == "Ok"

\* tokio-zmq: self.socks.take().ok_or(Error::Reused)
Taken_A(f) == IF f.sock = NoSock THEN "Reused" ELSE "Ok"

\* futures-zmq: self.sock.take().unwrap()
Taken_B(f) == IF f.sock = NoSock THEN "panic" ELSE "Ok"

\* What a poll of a one-shot future hands back when it does no I/O. notified
\* tells whether the poll notified the current task.
Refused(res, f, multipart) ==
    [res |-> res, future |-> f, multipart |-> multipart, out |-> <<>>, used |-> 0,
     item |-> <<>>, notified |-> FALSE]

\* MultipartRequest::poll of tokio-zmq
MultipartRequest_poll_A(f, multipart, w, q, e) ==
    IF Taken_A(f) # "Ok"
    THEN Refused(Taken_A(f), f, multipart)
    ELSE LET sock == f.sock
             r == request_poll(multipart, w, q, e)
         IN CASE r.res = "Ready" ->
                   [res |-> "Ready", future |-> Take(f), multipart |-> r.rest,
                    out |-> r.out, used |-> 0, item |-> <<sock>>,
                    notified |-> r.notified]
              [] r.res = "NotReady" ->
                   [res |-> "NotReady", future |-> Restore(Take(f), sock),
                    multipart |-> r.rest, out |-> r.out, used |-> 0, item |-> <<>>,
                    notified |-> r.notified]
              [] OTHER ->
                   [res |-> "Err", future |-> Take(f), multipart |-> r.rest,
                    out |-> r.out, used |-> 0, item |-> <<>>,
                    notified |-> r.notified]

\* MultipartResponse::poll of tokio-zmq
MultipartResponse_poll_A(f, multipart, pollin, avail, e) ==
    IF Taken_A(f) # "Ok"
    THEN Refused(Taken_A(f), f, multipart)
    ELSE LET sock == f.sock
             r == response_poll(multipart, pollin, avail, e)
         IN CASE r.res = "Ready" ->
                   [res |-> "Ready", future |-> Take(f), multipart |-> r.multipart,
                    out |-> <<>>, used |-> r.used, item |-> <<r.m, sock>>,
                    notified |-> r.notified]
              [] r.res = "NotReady" ->
                   [res |-> "NotReady", future |-> Restore(Take(f), sock),
                    multipart |-> r.multipart, out |-> <<>>, used |-> r.used,
                    item |-> <<>>,
                    notified |-> r.notified]
              [] OTHER ->
                   [res |-> "Err", future |-> Take(f), multipart |-> r.multipart,
                    out |-> <<>>, used |-> r.used, item |-> <<>>,
                    notified |-> r.notified]

\* What a poll of a futures-zmq future hands back: a Tick, the future and what
\* it yields.
Polled(t, f, item) == t @@ [future |-> f, item |-> item]

\* MultipartRequest::poll of futures-zmq
MultipartRequest_poll_B(f, st, os, bs) ==
    IF Taken_B(f) # "Ok"
    THEN Polled(Tick(Taken_B(f), st, os, <<>>, FALSE), f, <<>>)
    ELSE LET sock == f.sock
             t == poll_flush(st, os, sock, bs)
         IN CASE t.res = "Ready" -> Polled(t, Take(f), <<sock>>)
              [] t.res = "NotReady" -> Polled(t, Restore(Take(f), sock), <<>>)
              [] OTHER -> Polled(t, Take(f), <<>>)

\* MultipartResponse::poll of futures-zmq
MultipartResponse_poll_B(f, st, os) ==
    IF Taken_B(f) # "Ok"
    THEN Polled(Tick(Taken_B(f), st, os, <<>>, FALSE), f, <<>>)
    ELSE LET sock == f.sock
             t == poll_fetch(st, os, sock)
         IN CASE t.res = "Ready" -> Polled(t, Take(f), <<t.m, sock>>)
              [] t.res = "NotReady" -> Polled(t, Restore(Take(f), sock), <<>>)
              [] OTHER -> Polled(t, Take(f), <<>>)

\* ======================================================================
\* Actions: the task that owns the sink
\* ======================================================================

Returned(op, res, arg, item, before, after) ==
    [op |-> op, res |-> res, arg |-> arg, item |-> item, before |-> before, after |-> after]

\* futures::task::current(): the task that polls the sink and the stream, as
\* in stream.forward(sink).
current == 1

\* `if self.sink_task.is_none() { self.sink_task = Some(task::current()) }`
Register(slot) == IF slot = None THEN current ELSE slot

\* The event mask of the native socket of a tokio-zmq sink or stream.
Events == [pollin |-> inq[0] # <<>>, pollout |-> pollout[0]]

\* A slip: the peer is notified of the direction that is being polled.
Socket_poll_read_ready_same(events, task) ==
    [res |-> IF events.pollin THEN "Ready" ELSE "NotReady",
     calls |-> <<"file.poll_read_ready", "get_events">> \o
               (IF events.pollin THEN <<>> ELSE <<"clear_read_ready">>),
     woken |-> IF task # None /\ events.pollin THEN {task} ELSE {}]

\* Socket::poll_read_ready(mask, task): arms the reactor, reads the event mask,
\* notifies the peer task, if there is one, when the mask has POLLOUT, and
\* clears the read readiness when the mask has no POLLIN. woken is the set of
\* tasks notified.
Socket_poll_read_ready(events, task) ==
    [res |-> IF events.pollin THEN "Ready" ELSE "NotReady",
     calls |-> <<"file.poll_read_ready", "get_events">> \o
               (IF events.pollin THEN <<>> ELSE <<"clear_read_ready">>),
     woken |-> IF task # None /\ events.pollout THEN {task} ELSE {}]

\* Socket::poll_write_ready(task): the same for the write direction; the peer
\* task is notified when the mask has POLLIN.
Socket_poll_write_ready(events, task) ==
    [res |-> IF events.pollout THEN "Ready" ELSE "NotReady",
     calls |-> <<"file.poll_write_ready", "get_events">> \o
               (IF events.pollout THEN <<>> ELSE <<"clear_write_ready">>),
     woken |-> IF task # None /\ events.pollin THEN {task} ELSE {}]

\* The tasks a call of the sink arm notifies. SinkType is handed the stream's
\* task and request::poll, in the form that takes it, checks the readiness with
\* Socket::poll_write_ready(task) for each multipart it tries; with nothing
\* pending there is no such call.
sink_wakes(pend, events, task) ==
    IF pend = <<>> THEN {} ELSE Socket_poll_write_ready(events, task).woken

\* The tasks a poll of the stream arm notifies. StreamType::poll hands the
\* sink's task to response::poll, which checks the readiness with
\* Socket::poll_read_ready(mask, task).
stream_wakes(events, task) == Socket_poll_read_ready(events, task).woken

\* Core A: Sink::start_send of MultipartSink / MultipartSinkStream on SinkType
AStartSend ==
    /\ core = "A"
    /\ alive
    /\ nextId < MaxAccept
    /\ \E n \in 1..MaxFrames, q \in 0..MaxQuota, e \in Outcomes :
          LET m == NewMultipart(nextId + 1, n)
              r == start_send_A(pending, buffer_size, m, pollout[0], q, e)
          IN /\ pending' = r.pending
             /\ wire' = [wire EXCEPT ![0] = @ \o r.out]
             /\ failed' = [failed EXCEPT ![0] = @ \/ r.res = "Err"]
             /\ accepted' = IF r.res = "Ready" THEN Append(accepted, m) ELSE accepted
             /\ nextId' = nextId + 1
             /\ ret' = Returned("start_send", r.res, <<m>>, r.item, r.after_poll, r.pending)
                       @@ [woken |-> sink_wakes(pending, Events, stream_task)]
    /\ sink_task' = Register(sink_task)
    /\ UNCHANGED <<core, buffer_size, state, multiparts, send_buffer>>
    /\ UNCHANGED <<pollout, inq, delivered, chanVars, workVars, oneshot, handleVars>>
    /\ UNCHANGED <<rstate, working, future, alive, diag, yielded, stream_task>>

\* Core A: Sink::poll_complete. It registers no task.
APollComplete ==
    /\ core = "A"
    /\ alive
    /\ \E q \in 0..MaxQuota, e \in Outcomes :
          LET r == poll_complete_A(pending, pollout[0], q, e)
          IN /\ pending' = r.pending
             /\ wire' = [wire EXCEPT ![0] = @ \o r.out]
             /\ failed' = [failed EXCEPT ![0] = @ \/ r.res = "Err"]
             /\ ret' = Returned("poll_complete", r.res, <<>>, <<>>, r.pending, r.pending)
                       @@ [woken |-> sink_wakes(pending, Events, stream_task)]
    /\ UNCHANGED <<core, buffer_size, state, multiparts, send_buffer, accepted, nextId>>
    /\ UNCHANGED <<pollout, inq, delivered, chanVars, workVars, oneshot, handleVars>>
    /\ UNCHANGED moreVars

\* What a tick of the Core B sink does to the channel.
Submitted(r) ==
    /\ chan' = chan \o r.reqs
    /\ ready' = (ready \/ r.notified)
    /\ pipe' = IF r.notified THEN NotifiedPipe(ready, pipe) ELSE pipe
    /\ writes' = IF r.notified THEN NotifiedWrites(ready, writes) ELSE writes

\* Core B: Sink::start_send of MultipartSink / MultipartSinkStream
BStartSend ==
    /\ core = "B"
    /\ alive
    /\ nextId < MaxAccept
    /\ \E n \in 1..MaxFrames :
          LET m == NewMultipart(nextId + 1, n)
              r == start_send_B(state, multiparts, buffer_size, m, oneshot, 0, send_buffer)
          IN /\ Len(r.os) <= MaxReq
             /\ state' = r.state
             /\ multiparts' = r.multiparts
             /\ oneshot' = r.os
             /\ Submitted(r)
             /\ accepted' = IF r.res = "Ready" THEN Append(accepted, m) ELSE accepted
             /\ nextId' = nextId + 1
             /\ ret' = Returned("start_send", r.res, <<m>>, r.item, r.after_poll, r.multiparts)
    /\ UNCHANGED <<core, buffer_size, pending, send_buffer>>
    /\ UNCHANGED <<natVars, workVars, handleVars>>
    /\ UNCHANGED moreVars

\* Core B: Sink::poll_complete
BPollComplete ==
    /\ core = "B"
    /\ alive
    /\ LET r == poll_complete_B(state, multiparts, oneshot, 0, send_buffer)
       IN /\ Len(r.os) <= MaxReq
          /\ state' = r.state
          /\ multiparts' = r.multiparts
          /\ oneshot' = r.os
          /\ Submitted(r)
          /\ ret' = Returned("poll_complete", r.res, <<>>, <<>>, r.multiparts, r.multiparts)
    /\ UNCHANGED <<core, buffer_size, pending, send_buffer, accepted, nextId>>
    /\ UNCHANGED <<natVars, workVars, handleVars>>
    /\ UNCHANGED moreVars

\* The peer or the network changes what the socket's event mask reports.
EnvPollout ==
    /\ \E id \in (IF core = "A" THEN {0} ELSE DOMAIN sockets) :
          pollout' = [pollout EXCEPT ![id] = ~@]
    /\ UNCHANGED <<wire, inq, delivered, failed>>
    /\ UNCHANGED <<sinkVars, chanVars, workVars, oneshot, handleVars>>
    /\ UNCHANGED moreVars

\* ======================================================================
\* Actions: the poll thread (PollThread::turn = drop_inactive; try_recv; poll)
\* ======================================================================

\* PollThread::check_responder: poll_cancel is Ready when the receiver is gone
\* (the responder is then dropped); otherwise it parks the NotifyCanceled task.
check_responder(os, o) ==
    IF o = None THEN os
    ELSE IF os[o].rx = "dropped"
         THEN [os EXCEPT ![o].tx = "dropped"]
         ELSE [os EXCEPT ![o].task = TRUE]

\* Whether drop_inactive keeps a stored responder.
Kept(os, o) == IF o # None /\ os[o].rx = "dropped" THEN None ELSE o

\* PollThread::drop_inactive
WSweep ==
    /\ core = "B"
    /\ pc = "sweep"
    /\ pc' = "drain"
    /\ sockets' = [id \in DOMAIN sockets |->
                      [sockets[id] EXCEPT !.recv_responder = Kept(oneshot, @),
                                          !.send_responder = Kept(oneshot, @)]]
    /\ oneshot' = [o \in DOMAIN oneshot |->
                      IF \E id \in DOMAIN sockets :
                            o \in {sockets[id].recv_responder, sockets[id].send_responder}
                      THEN check_responder(oneshot, o)[o]
                      ELSE oneshot[o]]
    /\ UNCHANGED <<should_stop, next_sock_id>>
    /\ UNCHANGED <<sinkVars, natVars, chanVars, handleVars>>
    /\ UNCHANGED moreVars

\* Receiver::drain, the loop: read the self-pipe until it would block.
WDrainPipe ==
    /\ core = "B"
    /\ pc = "drain"
    /\ pc' = "swap"
    /\ pipe' = 0
    /\ UNCHANGED <<ready, chan, writes, should_stop, sockets, next_sock_id>>
    /\ UNCHANGED <<sinkVars, natVars, oneshot, handleVars>>
    /\ UNCHANGED moreVars

\* Receiver::drain, the return: swap_false; PollThread::try_recv looks at the
\* channel only if the flag was set.
WSwapFalse ==
    /\ core = "B"
    /\ pc = "swap"
    /\ pc' = IF ready THEN "recv" ELSE "poll"
    /\ ready' = FALSE
    /\ writes' = 0
    /\ UNCHANGED <<pipe, chan, should_stop, sockets, next_sock_id>>
    /\ UNCHANGED <<sinkVars, natVars, oneshot, handleVars>>
    /\ UNCHANGED moreVars

\* The poll thread's state a request handler reads and writes.
Handled(socks, nid, stop, os, reqs, rf, em, rm) ==
    [sockets |-> socks, next_sock_id |-> nid, should_stop |-> stop, os |-> os,
     reqs |-> reqs, refs |-> rf, emitted |-> em, removed |-> rm]

\* A slip: the socket is stored under the lowest id, whatever the counter says.
Insert_lowest(socks, id, p) == [i \in DOMAIN socks \cup {0} |-> IF i = 0 THEN p ELSE socks[i]]

\* BTreeMap::insert
Insert(socks, id, p) == [i \in DOMAIN socks \cup {id} |-> IF i = id THEN p ELSE socks[i]]

\* BTreeMap::remove
Remove(socks, id) == [i \in DOMAIN socks \ {id} |-> socks[i]]

\* PollThread::handle_request
handle_request(req) ==
    LET same == Handled(sockets, next_sock_id, should_stop, oneshot, <<>>, refs,
                        emitted, removed)
        id == req.id
    IN CASE req.type = "Init" ->
              \* The SockId goes to the requester; if the requester is gone it is
              \* dropped here, and SockIdInner::drop sends DropSocket.
              LET nid == next_sock_id
                  live == oneshot[req.resp].rx = "live"
              IN [same EXCEPT
                    !.sockets = Insert(sockets, nid, Pollable_new),
                    !.os = Deliver(oneshot, req.resp, Response("SockId", <<nid>>)),
                    !.refs = [refs EXCEPT ![nid] = IF live THEN 1 ELSE 0],
                    !.emitted = [emitted EXCEPT ![nid] = IF live THEN 0 ELSE 1],
                    !.reqs = IF live THEN <<>>
                             ELSE <<Request("DropSocket", nid, <<>>, 0, None)>>,
                    !.next_sock_id = nid + 1]
         [] req.type = "SendMessage" ->
              IF id \notin DOMAIN sockets
              THEN [same EXCEPT !.os = DropTx(oneshot, req.resp)]
              ELSE LET r == message(sockets[id], req.m, req.bs)
                   IN IF r.back # <<>>
                      THEN [same EXCEPT
                              !.os = Deliver(oneshot, req.resp, Response("Full", r.back[1]))]
                      ELSE [same EXCEPT
                              !.sockets = [sockets EXCEPT ![id] =
                                  [r.p EXCEPT !.kind = kind_write(r.p.kind),
                                              !.send_responder = req.resp]],
                              !.os = DropTx(oneshot, sockets[id].send_responder)]
         [] req.type = "ReceiveMessage" ->
              IF id \notin DOMAIN sockets
              THEN [same EXCEPT !.os = DropTx(oneshot, req.resp)]
              ELSE IF sockets[id].pending_recv_msg # <<>>
                   THEN [same EXCEPT
                           !.sockets = [sockets EXCEPT ![id].pending_recv_msg = Tail(@)],
                           !.os = Deliver(oneshot, req.resp,
                                          Response("Received", Head(sockets[id].pending_recv_msg)))]
                   ELSE [same EXCEPT
                           !.sockets = [sockets EXCEPT ![id] =
                               [@ EXCEPT !.recv_responder = req.resp,
                                         !.kind = kind_read(sockets[id].kind)]],
                           !.os = DropTx(oneshot, sockets[id].recv_responder)]
         [] req.type = "DropSocket" ->
              IF id \notin DOMAIN sockets
              THEN [same EXCEPT !.removed = removed \cup {id}]
              ELSE [same EXCEPT
                      !.sockets = Remove(sockets, id),
                      !.os = DropTx(DropTx(oneshot, sockets[id].send_responder),
                                    sockets[id].recv_responder),
                      !.removed = removed \cup {id}]
         [] OTHER -> \* Request::Done
              [same EXCEPT !.should_stop = TRUE]

\* Where PollThread::try_recv goes after a request: it leaves its loop once
\* should_stop is set.
AfterRequest(stop) == IF stop THEN "poll" ELSE "recv"

\* PollThread::try_recv, one round of its loop: try_recv() and handle_request.
\* A DropSocket the poll thread sends itself goes through Sender::send.
WHandle ==
    /\ core = "B"
    /\ pc = "recv"
    /\ IF chan = <<>>
       THEN /\ pc' = "poll"
            /\ UNCHANGED <<chan, ready, pipe, writes, should_stop, sockets, next_sock_id>>
            /\ UNCHANGED <<oneshot, refs, emitted, removed>>
       ELSE LET h == handle_request(Head(chan))
                sent == h.reqs # <<>>
            IN /\ pc' = AfterRequest(h.should_stop)
               /\ chan' = Tail(chan) \o h.reqs
               /\ ready' = (ready \/ sent)
               /\ pipe' = IF sent THEN NotifiedPipe(ready, pipe) ELSE pipe
               /\ writes' = IF sent THEN NotifiedWrites(ready, writes) ELSE writes
               /\ should_stop' = h.should_stop
               /\ sockets' = h.sockets
               /\ next_sock_id' = h.next_sock_id
               /\ oneshot' = h.os
               /\ refs' = h.refs
               /\ emitted' = h.emitted
               /\ removed' = h.removed
    /\ UNCHANGED <<prod, sessions>>
    /\ UNCHANGED <<sinkVars, natVars>>
    /\ UNCHANGED moreVars

\* The sockets whose poll item comes back writable, resp. readable.
Writable == {id \in DOMAIN sockets : is_write(sockets[id].kind) /\ pollout[id]}
Readable == {id \in DOMAIN sockets : is_read(sockets[id].kind) /\ inq[id] # <<>>}

\* A slip: the scheduling loop looks at readable first.
to_action_recv_first(id) ==
    IF id \in Readable THEN "Rcv" ELSE IF id \in Writable THEN "Snd" ELSE "None"

\* PollThread::poll, the scheduling loop: Snd for a writable socket, else Rcv
\* for a readable one.
to_action(id) ==
    IF id \in Writable THEN "Snd" ELSE IF id \in Readable THEN "Rcv" ELSE "None"

RECURSIVE RepliesOf(_, _)
\* The replies of one poll round, in the order the actions run: to_action is
\* drained in reverse, the highest socket id first.
RepliesOf(res, ids) ==
    IF ids = {} THEN <<>>
    ELSE LET id == CHOOSE i \in ids : \A j \in ids : i >= j
         IN res[id].reply \o RepliesOf(res, ids \ {id})

\* PollThread::poll: blocks until the self-pipe or an armed socket is signalled,
\* then runs the scheduled actions. q[id] and e[id] are what the native socket
\* of a scheduled send does; r[id] is what ends a scheduled receive.
WPoll ==
    /\ core = "B"
    /\ pc = "poll"
    /\ ~(pipe = 0 /\ Writable = {} /\ Readable = {})
    /\ \E q \in [Writable -> 0..MaxQuota], e \in [Writable -> Outcomes],
          r \in [Readable -> RecvOutcomes] :
          LET res == [id \in DOMAIN sockets |->
                         CASE to_action(id) = "Snd" -> send_msg_B(sockets[id], q[id], e[id])
                           [] to_action(id) = "Rcv" -> recv_msg(sockets[id], inq[id], r[id])
                           [] OTHER -> [p |-> sockets[id], out |-> <<>>, reply |-> <<>>,
                                        panic |-> FALSE, err |-> FALSE]]
          IN /\ sockets' = [id \in DOMAIN sockets |-> res[id].p]
             /\ wire' = [id \in SockIds |->
                            IF id \in DOMAIN sockets THEN wire[id] \o res[id].out
                            ELSE wire[id]]
             /\ inq' = [id \in SockIds |->
                            IF id \in DOMAIN sockets /\ to_action(id) = "Rcv" THEN <<>>
                            ELSE inq[id]]
             /\ failed' = [id \in SockIds |->
                            failed[id] \/ (id \in DOMAIN sockets /\ res[id].err)]
             /\ oneshot' = DeliverAll(oneshot, RepliesOf(res, DOMAIN sockets))
             /\ pc' = IF \E id \in DOMAIN sockets : res[id].panic THEN "panic" ELSE "sweep"
    /\ UNCHANGED <<pollout, delivered, ready, pipe, chan, writes, should_stop, next_sock_id>>
    /\ UNCHANGED <<sinkVars, handleVars>>
    /\ UNCHANGED moreVars

\* ======================================================================
\* SpecSink: one sink of either core on one native socket
\* ======================================================================

NoSockets == [id \in {} |-> Pollable_new]
\* A thread that is not inside Sender::send.
Idle == [at |-> "idle", locked |-> FALSE]
NoCall == Returned("none", "none", <<>>, <<>>, <<>>, <<>>)
\* No one-shot future has been made.
NoFuture == [kind |-> "none", of |-> NoSock, sock |-> NoSock]

\* What every specification starts from: a fresh Session (Session::new), its
\* poll thread about to run its first turn, nothing on the channel.
InitCommon ==
    /\ pending = <<>>
    /\ state = StReady
    /\ multiparts = <<>>
    /\ accepted = <<>>
    /\ nextId = 0
    /\ ret = NoCall
    /\ wire = [id \in SockIds |-> <<>>]
    /\ pollout = [id \in SockIds |-> FALSE]
    /\ inq = [id \in SockIds |-> <<>>]
    /\ delivered = 0
    /\ failed = [id \in SockIds |-> FALSE]
    /\ ready = FALSE
    /\ pipe = 0
    /\ chan = <<>>
    /\ writes = 0
    /\ pc = "sweep"
    /\ should_stop = FALSE
    /\ oneshot = <<>>
    /\ prod = [p \in Procs |-> Idle]
    /\ sessions = 1
    /\ emitted = [id \in SockIds |-> 0]
    /\ removed = {}
    /\ rstate = RsPending
    /\ working = <<>>
    /\ future = NoFuture
    /\ alive = TRUE
    /\ diag = 0
    /\ yielded = <<>>
    /\ sink_task = None
    /\ stream_task = None

\* A sink made from a built socket: SinkType::new / MultipartSink::new. In
\* Core B the socket is registered with the poll thread as id 0.
InitSink ==
    /\ InitCommon
    /\ core \in {"A", "B"}
    /\ buffer_size \in 0..MaxBuf
    /\ send_buffer \in (IF core = "B" THEN 0..MaxBuf ELSE {0})
    /\ sockets = IF core = "B" THEN [id \in {0} |-> Pollable_new] ELSE NoSockets
    /\ next_sock_id = IF core = "B" THEN 1 ELSE 0
    /\ refs = [id \in SockIds |-> IF core = "B" /\ id = 0 THEN 1 ELSE 0]

NextSink ==
    \/ AStartSend
    \/ APollComplete
    \/ BStartSend
    \/ BPollComplete
    \/ EnvPollout
    \/ WSweep
    \/ WDrainPipe
    \/ WSwapFalse
    \/ WHandle
    \/ WPoll

SpecSink == InitSink /\ [][NextSink]_vars

\* ======================================================================
\* SpecDrop: the sink of SpecSink, which its owner may drop at any time
\* ======================================================================

\* Core A: the sink is dropped. SinkType::drop logs an error if multiparts are
\* still queued.
ADropSink ==
    /\ core = "A"
    /\ alive
    /\ alive' = FALSE
    /\ diag' = IF Len(pending) > 0 THEN diag + 1 ELSE diag
    /\ UNCHANGED <<rstate, working, future, yielded>>
    /\ UNCHANGED taskVars
    /\ UNCHANGED <<sinkVars, natVars, chanVars, workVars, oneshot, handleVars>>

\* Core B: the sink is dropped. MultipartSink and MultipartSinkStream have no
\* Drop of their own: the fields go, the SendState with the SendFuture it may
\* hold and the Socket with its SockId (SockIdInner::drop sends DropSocket),
\* and nothing is logged.
BDropSink ==
    /\ core = "B"
    /\ alive
    /\ alive' = FALSE
    /\ LET running == state.tag = "Running"
           woken == running /\ oneshot[state.fut].task
           last == refs[0] = 1
           sent == woken \/ last
       IN /\ oneshot' = IF running THEN DropRx(oneshot, state.fut) ELSE oneshot
          /\ refs' = [refs EXCEPT ![0] = @ - 1]
          /\ emitted' = [emitted EXCEPT ![0] = IF last THEN @ + 1 ELSE @]
          /\ chan' = IF last THEN Append(chan, Request("DropSocket", 0, <<>>, 0, None))
                     ELSE chan
          /\ ready' = (ready \/ sent)
          /\ pipe' = IF sent THEN NotifiedPipe(ready, pipe) ELSE pipe
          /\ writes' = IF sent THEN NotifiedWrites(ready, writes) ELSE writes
    /\ UNCHANGED <<rstate, working, future, diag, yielded>>
    /\ UNCHANGED taskVars
    /\ UNCHANGED <<prod, sessions, removed>>
    /\ UNCHANGED <<sinkVars, natVars, workVars>>

NextDrop ==
    \/ AStartSend
    \/ APollComplete
    \/ BStartSend
    \/ BPollComplete
    \/ ADropSink
    \/ BDropSink
    \/ EnvPollout
    \/ WSweep
    \/ WDrainPipe
    \/ WSwapFalse
    \/ WHandle
    \/ WPoll

SpecDrop == InitSink /\ [][NextDrop]_vars

\* ======================================================================
\* SpecWake: producer threads against the poll thread, Sender::send and
\* Receiver::drain taken one statement at a time
\* ======================================================================

\* InnerSession.tx is a Mutex<Sender>; InnerSession::send and InnerSession::drop
\* keep the guard until their Sender::send has returned.
MutexFree == \A p \in Procs : ~prod[p].locked

\* Sender::send, first statement: the request goes on the mpsc channel.
Enqueue(p, req, locked) ==
    /\ prod[p].at = "idle"
    /\ chan' = Append(chan, req)
    /\ prod' = [prod EXCEPT ![p] = [at |-> "swap", locked |-> locked]]

\* Init requests made and not yet handled.
InitsQueued == Cardinality({i \in DOMAIN chan : chan[i].type = "Init"})

\* Session::init, up to the enqueue inside Sender::send.
PInit(p) ==
    /\ sessions > 0
    /\ MutexFree
    /\ next_sock_id + InitsQueued < MaxSock
    /\ Len(oneshot) < MaxReq
    /\ oneshot' = Append(oneshot, NewOneshot)
    /\ Enqueue(p, Request("Init", 0, <<>>, 0, Len(oneshot) + 1), TRUE)
    /\ UNCHANGED <<ready, pipe, writes, refs, sessions, emitted, removed>>
    /\ UNCHANGED <<sinkVars, natVars, workVars>>
    /\ UNCHANGED moreVars

\* An InitFuture dropped before the poll thread has answered it.
PDropInitFuture ==
    /\ \E i \in DOMAIN chan :
          /\ chan[i].type = "Init"
          /\ oneshot[chan[i].resp].rx = "live"
          /\ oneshot' = DropRx(oneshot, chan[i].resp)
    /\ UNCHANGED <<sinkVars, natVars, chanVars, workVars, handleVars>>
    /\ UNCHANGED moreVars

\* DuplicateSock::dup: one more clone of the Arc.
PDup ==
    /\ \E id \in SockIds :
          /\ refs[id] >= 1
          /\ refs[id] < MaxRefs
          /\ refs' = [refs EXCEPT ![id] = @ + 1]
    /\ UNCHANGED <<prod, sessions, emitted, removed>>
    /\ UNCHANGED <<sinkVars, natVars, chanVars, workVars, oneshot>>
    /\ UNCHANGED moreVars

\* A clone of a SockId is dropped; the last one runs SockIdInner::drop, which
\* sends DropSocket through its own Sender, not through the Session's mutex.
PDropSockId(p) ==
    /\ prod[p].at = "idle"
    /\ \E id \in SockIds :
          /\ refs[id] >= 1
          /\ refs' = [refs EXCEPT ![id] = @ - 1]
          /\ IF refs[id] = 1
             THEN /\ Enqueue(p, Request("DropSocket", id, <<>>, 0, None), FALSE)
                  /\ emitted' = [emitted EXCEPT ![id] = @ + 1]
             ELSE UNCHANGED <<chan, prod, emitted>>
    /\ UNCHANGED <<ready, pipe, writes, sessions, removed>>
    /\ UNCHANGED <<sinkVars, natVars, workVars, oneshot>>
    /\ UNCHANGED moreVars

\* The last clone of the Session is dropped: InnerSession::drop sends Done.
PDropSession(p) ==
    /\ sessions = 1
    /\ MutexFree
    /\ sessions' = 0
    /\ Enqueue(p, Request("Done", 0, <<>>, 0, None), TRUE)
    /\ UNCHANGED <<ready, pipe, writes, refs, emitted, removed>>
    /\ UNCHANGED <<sinkVars, natVars, workVars, oneshot>>
    /\ UNCHANGED moreVars

\* Channel::notify, the swap: the byte is written only if the flag was false.
PSwapTrue(p) ==
    /\ prod[p].at = "swap"
    /\ ready' = TRUE
    /\ prod' = [prod EXCEPT ![p] = IF ready THEN Idle ELSE [@ EXCEPT !.at = "write"]]
    /\ UNCHANGED <<pipe, chan, writes, refs, sessions, emitted, removed>>
    /\ UNCHANGED <<sinkVars, natVars, workVars, oneshot>>
    /\ UNCHANGED moreVars

\* Channel::notify, the write of one byte to the self-pipe.
PWrite(p) ==
    /\ prod[p].at = "write"
    /\ pipe' = pipe + 1
    /\ writes' = writes + 1
    /\ prod' = [prod EXCEPT ![p] = Idle]
    /\ UNCHANGED <<ready, chan, refs, sessions, emitted, removed>>
    /\ UNCHANGED <<sinkVars, natVars, workVars, oneshot>>
    /\ UNCHANGED moreVars

\* Session::new: the poll thread is spawned with no socket registered.
InitWake ==
    /\ InitCommon
    /\ core = "B"
    /\ buffer_size = 0
    /\ send_buffer = 0
    /\ sockets = NoSockets
    /\ next_sock_id = 0
    /\ refs = [id \in SockIds |-> 0]

NextWake ==
    \/ \E p \in Procs : PInit(p)
    \/ PDropInitFuture
    \/ PDup
    \/ \E p \in Procs : PDropSockId(p)
    \/ \E p \in Procs : PDropSession(p)
    \/ \E p \in Procs : PSwapTrue(p)
    \/ \E p \in Procs : PWrite(p)
    \/ WSweep
    \/ WDrainPipe
    \/ WSwapFalse
    \/ WHandle
    \/ WPoll

SpecWake == InitWake /\ [][NextWake]_vars

\* ======================================================================
\* SpecCancel: requesters calling Session::send / Session::recv on socket 0
\* and dropping the futures they hold
\* ======================================================================

\* What a whole Sender::send does to the channel when nothing interleaves.
Sent_B(req) ==
    /\ chan' = Append(chan, req)
    /\ ready' = NotifiedReady
    /\ pipe' = NotifiedPipe(ready, pipe)
    /\ writes' = NotifiedWrites(ready, writes)

\* Session::send: a fresh reply channel, SendMessage on the request channel.
\* max caps the reply channels of one run.
Session_send(max) ==
    /\ refs[0] >= 1
    /\ nextId < MaxAccept
    /\ Len(oneshot) < max
    /\ Sent_B(Request("SendMessage", 0, NewMultipart(nextId + 1, 1), send_buffer,
                      Len(oneshot) + 1))
    /\ oneshot' = Append(oneshot, NewOneshot)
    /\ nextId' = nextId + 1
    /\ UNCHANGED <<core, buffer_size, pending, state, multiparts, send_buffer, accepted, ret>>
    /\ UNCHANGED <<natVars, workVars, handleVars>>
    /\ UNCHANGED moreVars

RSend == Session_send(MaxPending)

\* Session::recv: a fresh reply channel, ReceiveMessage on the request channel.
RRecv ==
    /\ refs[0] >= 1
    /\ Len(oneshot) < MaxPending
    /\ Sent_B(Request("ReceiveMessage", 0, <<>>, 0, Len(oneshot) + 1))
    /\ oneshot' = Append(oneshot, NewOneshot)
    /\ UNCHANGED <<sinkVars, natVars, workVars, handleVars>>
    /\ UNCHANGED moreVars

\* A SendFuture or RecvFuture is dropped while its operation is pending. The
\* oneshot::Receiver's drop wakes the task the sender parked in poll_cancel,
\* which is NotifyCanceled::notify, if one is parked.
RDrop ==
    /\ \E o \in DOMAIN oneshot :
          /\ oneshot[o].rx = "live"
          /\ oneshot[o].val = NoResponse
          /\ oneshot' = DropRx(oneshot, o)
          /\ IF oneshot[o].task
             THEN /\ ready' = NotifiedReady
                  /\ pipe' = NotifiedPipe(ready, pipe)
                  /\ writes' = NotifiedWrites(ready, writes)
             ELSE UNCHANGED <<ready, pipe, writes>>
    /\ UNCHANGED <<chan, sinkVars, natVars, workVars, handleVars>>
    /\ UNCHANGED moreVars

\* The peer sends one single-frame multipart, which the native socket queues.
EnvDeliver ==
    /\ delivered < MaxInq
    /\ delivered' = delivered + 1
    /\ inq' = [inq EXCEPT ![0] = Append(@, Sent(<<delivered + 1, 1>>, FALSE))]
    /\ UNCHANGED <<wire, pollout, failed>>
    /\ UNCHANGED <<sinkVars, chanVars, workVars, oneshot, handleVars>>
    /\ UNCHANGED moreVars

\* A socket registered as id 0, its handle held by the requesters.
InitCancel ==
    /\ InitCommon
    /\ core = "B"
    /\ buffer_size = 0
    /\ send_buffer \in 1..MaxBuf
    /\ sockets = [id \in {0} |-> Pollable_new]
    /\ next_sock_id = 1
    /\ refs = [id \in SockIds |-> IF id = 0 THEN 1 ELSE 0]

NextCancel ==
    \/ RSend
    \/ RRecv
    \/ RDrop
    \/ EnvPollout
    \/ EnvDeliver
    \/ WSweep
    \/ WDrainPipe
    \/ WSwapFalse
    \/ WHandle
    \/ WPoll

SpecCancel == InitCancel /\ [][NextCancel]_vars

\* ======================================================================
\* SpecRecv: requesters calling Session::recv on socket 0, the peer sending
\* whole multiparts
\* ======================================================================

\* The peer sends one multipart of PeerFrames frames; the native socket queues
\* it whole. delivered counts multiparts here.
EnvDeliverMultipart ==
    /\ delivered < MaxMultiparts
    /\ delivered' = delivered + 1
    /\ inq' = [inq EXCEPT ![0] =
                  @ \o [j \in 1..PeerFrames |-> Sent(<<delivered + 1, j>>, j < PeerFrames)]]
    /\ UNCHANGED <<wire, pollout, failed>>
    /\ UNCHANGED <<sinkVars, chanVars, workVars, oneshot, handleVars>>
    /\ UNCHANGED moreVars

InitRecv ==
    /\ InitCancel
    /\ send_buffer = 1

NextRecv ==
    \/ RRecv
    \/ RDrop
    \/ EnvDeliverMultipart
    \/ WSweep
    \/ WDrainPipe
    \/ WSwapFalse
    \/ WHandle
    \/ WPoll

SpecRecv == InitRecv /\ [][NextRecv]_vars

\* ======================================================================
\* SpecDuplex: a Session::recv and Session::send calls on socket 0, the
\* requesters holding their futures
\* ======================================================================

DSend == Session_send(MaxDuplex)

InitDuplex ==
    /\ InitCancel
    /\ send_buffer = MaxBuf

NextDuplex ==
    \/ DSend
    \/ RRecv
    \/ EnvPollout
    \/ EnvDeliver
    \/ WSweep
    \/ WDrainPipe
    \/ WSwapFalse
    \/ WHandle
    \/ WPoll

SpecDuplex == InitDuplex /\ [][NextDuplex]_vars

\* ======================================================================
\* SpecShared: a Core B sink on socket 0 and another holder of the socket's
\* SockId calling Session::send on it, both with buffer_size 1
\* ======================================================================

InitShared ==
    /\ InitSink
    /\ core = "B"
    /\ buffer_size = 1
    /\ send_buffer = 1

NextShared ==
    \/ BStartSend
    \/ BPollComplete
    \/ RSend
    \/ EnvPollout
    \/ WSweep
    \/ WDrainPipe
    \/ WSwapFalse
    \/ WHandle
    \/ WPoll

SpecShared == InitShared /\ [][NextShared]_vars

\* ======================================================================
\* SpecStream: a MultipartSinkStream of either core on socket 0, the peer's
\* multiparts arriving frame by frame
\* ======================================================================

\* The socket the peer's frames go to.
Receiver == IF future.kind = "none" THEN 0 ELSE future.of

\* The d-th frame the peer sends: its multiparts have PeerFrames frames each.
PeerFrame(d) ==
    LET k == ((d - 1) \div PeerFrames) + 1
        j == ((d - 1) % PeerFrames) + 1
    IN Sent(<<k, j>>, j < PeerFrames)

\* The native socket queues the next frame of the peer.
EnvDeliverFrame ==
    /\ delivered < MaxDeliver
    /\ delivered' = delivered + 1
    /\ inq' = [inq EXCEPT ![Receiver] = Append(@, PeerFrame(delivered + 1))]
    /\ UNCHANGED <<wire, pollout, failed>>
    /\ UNCHANGED <<sinkVars, chanVars, workVars, oneshot, handleVars>>
    /\ UNCHANGED moreVars

\* Core A: Stream::poll of MultipartStream / MultipartSinkStream on StreamType.
\* The native socket hands over n of its frames and then answers e.
AStreamPoll ==
    /\ core = "A"
    /\ \E n \in 0..Len(inq[0]), e \in Outcomes :
          /\ n < Len(inq[0]) => e = "ERR"
          /\ LET r == StreamType_poll(working, inq[0] # <<>>, SubSeq(inq[0], 1, n), e)
             IN /\ working' = r.multipart
                /\ inq' = [inq EXCEPT ![0] = SubSeq(@, r.used + 1, Len(@))]
                /\ failed' = [failed EXCEPT ![0] = @ \/ r.res = "Err"]
                /\ yielded' = yielded \o r.item
                /\ ret' = Returned("poll", r.res, <<>>, r.item, <<>>, <<>>)
                          @@ [notified |-> r.notified,
                              woken |-> stream_wakes(Events, sink_task)]
    /\ stream_task' = Register(stream_task)
    /\ UNCHANGED <<core, buffer_size, pending, state, multiparts, send_buffer, accepted, nextId>>
    /\ UNCHANGED <<wire, pollout, delivered, chanVars, workVars, oneshot, handleVars>>
    /\ UNCHANGED <<rstate, future, alive, diag, sink_task>>

\* Core B: Stream::poll of MultipartStream / MultipartSinkStream
BStreamPoll ==
    /\ core = "B"
    /\ LET t == MultipartStream_poll(rstate, oneshot, 0)
       IN /\ Len(t.os) <= MaxReq
          /\ rstate' = t.state
          /\ oneshot' = t.os
          /\ Submitted(t)
          /\ yielded' = yielded \o t.item
          /\ ret' = Returned("poll", t.res, <<>>, t.item, <<>>, <<>>)
    /\ UNCHANGED <<core, buffer_size, pending, state, multiparts, send_buffer, accepted, nextId>>
    /\ UNCHANGED <<natVars, workVars, handleVars>>
    /\ UNCHANGED <<working, future, alive, diag>>
    /\ UNCHANGED taskVars

NextStream ==
    \/ AStartSend
    \/ APollComplete
    \/ AStreamPoll
    \/ BStartSend
    \/ BPollComplete
    \/ BStreamPoll
    \/ EnvPollout
    \/ EnvDeliverFrame
    \/ WSweep
    \/ WDrainPipe
    \/ WSwapFalse
    \/ WHandle
    \/ WPoll

\* A sink-stream made from a built socket, its queue one multipart long:
\* MultipartSinkStream::new. In Core B the socket is registered as id 0.
InitStream ==
    /\ InitCommon
    /\ core \in {"A", "B"}
    /\ buffer_size = 1
    /\ send_buffer = IF core = "B" THEN 1 ELSE 0
    /\ sockets = IF core = "B" THEN [id \in {0} |-> Pollable_new] ELSE NoSockets
    /\ next_sock_id = IF core = "B" THEN 1 ELSE 0
    /\ refs = [id \in SockIds |-> IF core = "B" /\ id = 0 THEN 1 ELSE 0]

SpecStream == InitStream /\ [][NextStream]_vars

\* ======================================================================
\* SpecSinkStream: one tokio-zmq MultipartSinkStream, its sink arm and its
\* stream arm polled in any order
\* ======================================================================

InitSinkStream ==
    /\ InitStream
    /\ core = "A"

NextSinkStream ==
    \/ AStartSend
    \/ APollComplete
    \/ AStreamPoll
    \/ EnvPollout
    \/ EnvDeliverFrame

SpecSinkStream == InitSinkStream /\ [][NextSinkStream]_vars

\* ======================================================================
\* SpecOneShot: one MultipartRequest or MultipartResponse of either core,
\* polled until it completes and after
\* ======================================================================

\* Core A: Future::poll of MultipartRequest / MultipartResponse
AFuturePoll ==
    /\ core = "A"
    /\ LET s == future.of
       IN \E q \in 0..MaxQuota, n \in 0..Len(inq[s]), e \in Outcomes :
             /\ n < Len(inq[s]) => e = "ERR"
             /\ LET r == IF future.kind = "send"
                         THEN MultipartRequest_poll_A(future, working, pollout[s], q, e)
                         ELSE MultipartResponse_poll_A(future, working, inq[s] # <<>>,
                                                       SubSeq(inq[s], 1, n), e)
                IN /\ future' = r.future
                   /\ working' = r.multipart
                   /\ wire' = [wire EXCEPT ![s] = @ \o r.out]
                   /\ inq' = [inq EXCEPT ![s] = SubSeq(@, r.used + 1, Len(@))]
                   /\ failed' = [failed EXCEPT ![s] = @ \/ r.res = "Err"]
                   /\ yielded' = IF future.kind = "recv" /\ r.res = "Ready"
                                 THEN Append(yielded, r.item[1]) ELSE yielded
                   /\ ret' = Returned("poll", r.res, <<>>, r.item, <<>>, <<>>)
                              @@ [notified |-> r.notified]
    /\ UNCHANGED <<core, buffer_size, pending, state, multiparts, send_buffer, accepted, nextId>>
    /\ UNCHANGED <<pollout, delivered, chanVars, workVars, oneshot, handleVars>>
    /\ UNCHANGED <<rstate, alive, diag>>
    /\ UNCHANGED taskVars

\* Core B: Future::poll of MultipartRequest / MultipartResponse. A poll that
\* panics ends the task. A poll that leaves through `?` drops the Socket it
\* took out of the future; SockIdInner::drop sends DropSocket.
BFuturePoll ==
    /\ core = "B"
    /\ ret.res # "panic"
    /\ LET s == future.of
           r == IF future.kind = "send"
                THEN MultipartRequest_poll_B(future, state, oneshot, send_buffer)
                ELSE MultipartResponse_poll_B(future, rstate, oneshot)
           gone == r.res \in {"Err", "Polling"}
           sent == r.notified \/ gone
       IN /\ Len(r.os) <= MaxReq
          /\ future' = r.future
          /\ state' = IF future.kind = "send" THEN r.state ELSE state
          /\ rstate' = IF future.kind = "recv" THEN r.state ELSE rstate
          /\ oneshot' = r.os
          /\ chan' = chan \o r.reqs \o
                       (IF gone THEN <<Request("DropSocket", s, <<>>, 0, None)>> ELSE <<>>)
          /\ ready' = (ready \/ sent)
          /\ pipe' = IF sent THEN NotifiedPipe(ready, pipe) ELSE pipe
          /\ writes' = IF sent THEN NotifiedWrites(ready, writes) ELSE writes
          /\ refs' = [refs EXCEPT ![s] = IF gone THEN @ - 1 ELSE @]
          /\ emitted' = [emitted EXCEPT ![s] = IF gone THEN @ + 1 ELSE @]
          /\ yielded' = IF future.kind = "recv" /\ r.res = "Ready"
                        THEN Append(yielded, r.item[1]) ELSE yielded
          /\ ret' = Returned("poll", r.res, <<>>, r.item, <<>>, <<>>)
    /\ UNCHANGED <<core, buffer_size, pending, multiparts, send_buffer, accepted, nextId>>
    /\ UNCHANGED <<natVars, workVars, prod, sessions, removed>>
    /\ UNCHANGED <<working, alive, diag>>
    /\ UNCHANGED taskVars

\* A future made from one of the built sockets: Core A sends from its own
\* multipart, Core B from SendState::Pending(multipart). In Core B every socket
\* is registered with the poll thread.
InitOneShot ==
    /\ pending = <<>>
    /\ multiparts = <<>>
    /\ accepted = <<>>
    /\ nextId = 0
    /\ ret = NoCall
    /\ wire = [id \in SockIds |-> <<>>]
    /\ pollout = [id \in SockIds |-> FALSE]
    /\ inq = [id \in SockIds |-> <<>>]
    /\ delivered = 0
    /\ failed = [id \in SockIds |-> FALSE]
    /\ ready = FALSE
    /\ pipe = 0
    /\ chan = <<>>
    /\ writes = 0
    /\ pc = "sweep"
    /\ should_stop = FALSE
    /\ oneshot = <<>>
    /\ prod = [p \in Procs |-> Idle]
    /\ sessions = 1
    /\ emitted = [id \in SockIds |-> 0]
    /\ removed = {}
    /\ rstate = RsPending
    /\ alive = TRUE
    /\ diag = 0
    /\ yielded = <<>>
    /\ sink_task = None
    /\ stream_task = None
    /\ core \in {"A", "B"}
    /\ buffer_size = 0
    /\ send_buffer \in (IF core = "B" THEN 1..MaxBuf ELSE {0})
    /\ \E kind \in {"send", "recv"}, s \in SockIds, n \in 1..MaxFrames :
          /\ future = NewFuture(kind, s)
          /\ working = IF core = "A" /\ kind = "send" THEN NewMultipart(1, n) ELSE <<>>
          /\ state = IF core = "B" /\ kind = "send"
                     THEN SendState("Pending", NewMultipart(1, n), None)
                     ELSE StReady
    /\ sockets = IF core = "B" THEN [id \in SockIds |-> Pollable_new] ELSE NoSockets
    /\ next_sock_id = IF core = "B" THEN MaxSock ELSE 0
    /\ refs = [id \in SockIds |-> IF core = "B" THEN 1 ELSE 0]

NextOneShot ==
    \/ AFuturePoll
    \/ BFuturePoll
    \/ EnvPollout
    \/ EnvDeliverFrame
    \/ WSweep
    \/ WDrainPipe
    \/ WSwapFalse
    \/ WHandle
    \/ WPoll

SpecOneShot == InitOneShot /\ [][NextOneShot]_vars

\* ======================================================================
\* Claims about the sinks (SpecSink)
\* ======================================================================

\* The frames a multipart puts on the wire: SNDMORE on all but the last.
Flags(m) == [j \in 1..Len(m) |-> Sent(m[j], j < Len(m))]

RECURSIVE Flatten(_)
Flatten(ms) == IF ms = <<>> THEN <<>> ELSE Flags(Head(ms)) \o Flatten(Tail(ms))

RECURSIVE Runs(_)
\* The multipart numbers of the frames on a wire, one entry per contiguous run.
Runs(w) ==
    IF w = <<>> THEN <<>>
    ELSE LET r == Runs(Tail(w))
             k == Head(w).data[1]
         IN IF r # <<>> /\ r[1] = k THEN r ELSE <<k>> \o r

AcceptedIds == [i \in 1..Len(accepted) |-> accepted[i][1][1]]

RECURSIVE IsSubseq(_, _)
\* s can be had from t by leaving elements out.
IsSubseq(s, t) ==
    IF s = <<>> THEN TRUE
    ELSE IF t = <<>> THEN FALSE
    ELSE IF Head(s) = Head(t) THEN IsSubseq(Tail(s), Tail(t))
    ELSE IsSubseq(s, Tail(t))

\* C1: the multiparts reach the native socket in the order start_send accepted
\* them: the runs of frames on the wire follow the accepted multiparts, none
\* overtaking and none coming back; and unless the socket returned a terminal
\* error, which drops the multipart it met, none is skipped either.
C1_OrderPreserved ==
    /\ IsSubseq(Runs(wire[0]), AcceptedIds)
    /\ ~failed[0] => IsPrefix(Runs(wire[0]), AcceptedIds)

\* C1 witness: a Core B sink has handed two whole multiparts to the socket, the
\* second one having waited in the sink's queue.
C1_Witness ==
    /\ core = "B"
    /\ Len(accepted) >= 2
    /\ Len(Runs(wire[0])) >= 2
    /\ wire[0] = Flatten(accepted)

\* The frames of the k-th multipart offered, as they appear on a wire.
FramesOf(w, k) == SelectSeq(w, LAMBDA f : f.data[1] = k)

\* C2: the frames of every accepted multipart appear on the wire as one run,
\* each at most once, in order, with SNDMORE on all but the last of the
\* multipart, and no frame of another multipart in between. As long as the
\* socket returned no terminal error the wire is a prefix of the accepted
\* multiparts laid end to end: a frame met by EAGAIN is the next one sent.
C2_MultipartIntegrity ==
    /\ \A i \in DOMAIN accepted :
          IsPrefix(FramesOf(wire[0], AcceptedIds[i]), Flags(accepted[i]))
    /\ Len(Runs(wire[0])) = Cardinality({f.data[1] : f \in {wire[0][j] : j \in DOMAIN wire[0]}})
    /\ \A j \in DOMAIN wire[0] : wire[0][j].data[1] \in {AcceptedIds[i] : i \in DOMAIN accepted}
    /\ ~failed[0] => IsPrefix(wire[0], Flatten(accepted))

\* C2 witness: a Core A send went through after being suspended part-way: the
\* queue holds a multipart cut short by EAGAIN, and an earlier one is complete.
C2_Witness ==
    /\ core = "A"
    /\ ~failed[0]
    /\ Len(Runs(wire[0])) >= 2
    /\ wire[0][Len(wire[0])].more
    /\ pending # <<>>
    /\ Len(pending[1]) < MaxFrames

\* C3 (as claimed): the Core A queue never holds more than buffer_size
\* multiparts, and a start_send that finds buffer_size multiparts still pending
\* after its poll_complete answers NotReady.
C3_PendingWithinBuffer ==
    (core = "A" /\ buffer_size >= 1) =>
        /\ Len(pending) <= buffer_size
        /\ (ret.op = "start_send" /\ ret.res # "Err" /\ Len(ret.before) >= buffer_size)
              => ret.res = "NotReady"

\* The multiparts a Core B sink has accepted and not seen confirmed: its queue,
\* and the one in the send state.
Unconfirmed ==
    Len(multiparts)
    + (IF state.tag = "Pending" THEN 1
       ELSE IF state.tag = "Running" /\ oneshot[state.fut].val.type # "Sent" THEN 1
       ELSE 0)

\* C4 (as claimed): a Core B sink never holds more than buffer_size accepted,
\* unconfirmed multiparts.
C4_UnconfirmedWithinBuffer == core = "B" => Unconfirmed <= buffer_size

\* C5 (as claimed): back-pressure hands the multipart back untouched and leaves
\* the queue as poll_complete left it; and a sink with buffer_size = 1 that got
\* two multiparts while the socket took nothing refuses the second.
C5_BackPressure ==
    /\ (ret.op = "start_send" /\ ret.res = "NotReady")
          => (ret.item = ret.arg /\ ret.after = ret.before)
    /\ (/\ buffer_size = 1
        /\ ret.op = "start_send"
        /\ nextId = 2
        /\ wire[0] = <<>>
        /\ ~failed[0])
          => (ret.res = "NotReady" /\ ret.item = ret.arg)

\* ======================================================================
\* Claims about the wakeup protocol and the handles (SpecWake)
\* ======================================================================

\* The poll thread is inside zmq::poll (timeout -1) and nothing it polls is
\* signalled: it stays there until a byte is written or a socket becomes ready.
Blocked == pc = "poll" /\ pipe = 0 /\ Writable = {} /\ Readable = {}

\* No thread is between the statements of Sender::send: no byte is on its way.
Quiet == \A p \in Procs : prod[p].at = "idle"

\* C6 (as claimed): every request passed to Sender::send gets handled: the poll
\* thread is never left blocked in poll, with no wakeup on its way, while a
\* request sits unhandled on the channel.
C6_NoStrandedRequest == (Blocked /\ Quiet) => chan = <<>>

\* C8 (as claimed): for every socket id exactly one DropSocket is emitted, when
\* the last clone is dropped and not before, and the poll thread then removes
\* the id: once it is blocked with nothing on its way, no id whose DropSocket
\* was emitted is left in its socket map.
C8_HandleLifetime ==
    /\ \A id \in SockIds :
          emitted[id] = IF id < next_sock_id /\ refs[id] = 0 THEN 1 ELSE 0
    /\ \A id \in removed : id \notin DOMAIN sockets
    /\ (Blocked /\ Quiet) => \A id \in DOMAIN sockets : emitted[id] = 0

\* C9 (as claimed): once Done is handled the poll thread runs no iteration
\* beyond the one that handled it: it is never found past the drop_inactive of
\* a later turn.
C9_StopsAfterDone == ~(should_stop /\ pc \in {"drain", "swap", "recv"})

\* C10 (as claimed): at most one unread wakeup byte is in the self-pipe, and at
\* most one byte is written between two consecutive clears of the flag.
C10_OneWakeupByte == pipe <= 1 /\ writes <= 1

\* ======================================================================
\* Claims about cancellation (SpecCancel)
\* ======================================================================

\* The reply channels whose sender the poll thread keeps as a stored responder.
Stored ==
    {sockets[id].send_responder : id \in DOMAIN sockets}
    \cup {sockets[id].recv_responder : id \in DOMAIN sockets}

\* C7 (as claimed): once the requester has dropped the receiver of a pending
\* send or recv, the poll thread discards the stored responder in a later
\* drop_inactive: it is never left blocked in poll, with no wakeup on its way,
\* still holding a responder whose receiver is gone.
C7_CanceledIsDiscarded ==
    (Blocked /\ Quiet) => \A o \in Stored \ {None} : oneshot[o].rx # "dropped"

\* C18: poll_complete on a sink with nothing queued and an idle send state
\* returns Ready whatever the socket would do, hands nothing to the native
\* socket, submits no request, wakes nobody and leaves the sink as it was, so
\* repeating it gives the same.
C18_IdlePollComplete ==
    /\ (core = "A" /\ pending = <<>>) =>
          \A w \in BOOLEAN, q \in 0..MaxQuota, e \in Outcomes :
             poll_complete_A(pending, w, q, e)
                = [res |-> "Ready", pending |-> <<>>, out |-> <<>>]
    /\ (core = "B" /\ multiparts = <<>> /\ state = StReady) =>
          poll_complete_B(state, multiparts, oneshot, 0, send_buffer)
             = Tick("Ready", StReady, oneshot, <<>>, FALSE) @@ [multiparts |-> <<>>]

\* C18 witness: a Core B sink that has sent a whole multipart is idle again and
\* its last poll_complete returned Ready.
C18_Witness ==
    /\ core = "B"
    /\ alive
    /\ multiparts = <<>>
    /\ state = StReady
    /\ accepted # <<>>
    /\ wire[0] = Flatten(accepted)
    /\ ret.op = "poll_complete"
    /\ ret.res = "Ready"

\* C20: a sink dropped with multiparts still queued has logged a diagnostic,
\* and one dropped with an empty queue has logged none.
C20_DropDiagnostic ==
    ~alive =>
       IF core = "A"
       THEN (diag > 0) <=> (pending # <<>>)
       ELSE (diag > 0) <=> (multiparts # <<>>)

\* ======================================================================
\* Claims about the send and receive state machines (SpecStream)
\* ======================================================================

\* C11: a tick of SendState or RecvState entered while the state is Polling
\* returns Error::Polling and nothing else: no request is submitted, no reply
\* channel is touched, the state machine and the sink's queue are as before,
\* so what was pending or in flight is neither lost nor altered. Error::Polling
\* is reported by no other tick.
C11_ReentrancyGuard ==
    /\ (core = "B" /\ state.tag = "Polling") =>
          /\ poll_flush(state, oneshot, 0, send_buffer)
                = Tick("Polling", state, oneshot, <<>>, FALSE)
          /\ poll_complete_B(state, multiparts, oneshot, 0, send_buffer).multiparts
                = multiparts
    /\ (core = "B" /\ rstate.tag = "Polling") =>
          poll_fetch(rstate, oneshot, 0)
             = Fetched(Tick("Polling", rstate, oneshot, <<>>, FALSE), <<>>)
    /\ ret.res = "Polling" =>
          (core = "B" /\ (state.tag = "Polling" \/ rstate.tag = "Polling"))

\* C11 witness: both state machines of a sink-stream are Polling, a multipart
\* is still queued in the sink, and the last tick returned Error::Polling.
C11_Witness ==
    /\ core = "B"
    /\ state.tag = "Polling"
    /\ rstate.tag = "Polling"
    /\ multiparts # <<>>
    /\ ret.res = "Polling"

\* C12: no tick leaves a state machine Polling: after an error the send state
\* is Ready, and no poll ever reports Error::Polling.
C12_NoRestingPolling ==
    /\ state.tag # "Polling"
    /\ rstate.tag # "Polling"
    /\ ret.res # "Polling"
    /\ (ret.op \in {"start_send", "poll_complete"} /\ ret.res = "Err" /\ core = "B")
          => state = StReady

RECURSIVE Concat(_)
\* The frames of a sequence of multiparts, in order.
Concat(ms) == IF ms = <<>> THEN <<>> ELSE Head(ms) \o Concat(Tail(ms))

\* The payloads of the frames a native socket holds.
Data(frames) == [i \in 1..Len(frames) |-> frames[i].data]

\* The payloads of the first d frames of the peer.
PeerData(d) == [i \in 1..d |-> PeerFrame(i).data]

RECURSIVE InFlight(_)
\* The multiparts in replies the stream has not yet polled out of channels 1..o.
InFlight(o) ==
    IF o = 0 THEN <<>>
    ELSE InFlight(o - 1) \o
         (IF oneshot[o].rx = "live" /\ oneshot[o].val.type = "Received"
          THEN <<oneshot[o].val.m>> ELSE <<>>)

\* Every frame read or still to read, oldest first: what the stream yielded,
\* then what is kept for it (Core A: the working multipart; Core B: a reply on
\* its way and pending_recv_msg), then what the native socket still holds.
Held ==
    IF core = "A"
    THEN Concat(yielded) \o working \o Data(inq[0])
    ELSE Concat(yielded) \o Concat(InFlight(Len(oneshot)))
         \o Concat(sockets[0].pending_recv_msg) \o Data(inq[0])

\* C15: a receive suspended by EAGAIN in the middle of a multipart keeps the
\* frames already read: as long as the native socket has returned no terminal
\* error, the frames yielded, kept and still queued are exactly the frames the
\* peer sent, in order, so the multipart delivered later has the early frames
\* followed by the later ones.
C15_PartialFramesKept ==
    ~failed[0] => Held = PeerData(delivered)

\* The types of the replies a round of the poll thread sends.
ReplyTypes(r) == {r.reply[i][2].type : i \in DOMAIN r.reply}

C19_NoEndOfStream ==
    ret.op = "poll" =>
       /\ ret.res \in {"NotReady", "Err", "Polling", "Ready"}
       /\ ret.res = "Ready" => (Len(ret.item) = 1 /\ ret.item[1] # <<>>)

\* C19 witness: a Core B stream has yielded the peer's first multipart.
C19_Witness ==
    /\ core = "B"
    /\ ret.op = "poll"
    /\ ret.res = "Ready"
    /\ ret.item = <<NewMultipart(1, PeerFrames)>>

\* ======================================================================
\* Claims about the one-shot futures (SpecOneShot)
\* ======================================================================

\* What a poll of the future would return now, the native socket taking q
\* frames or handing over n and then answering e.
PollNow_A(w, q, n, e) ==
    IF future.kind = "send"
    THEN MultipartRequest_poll_A(future, working, w, q, e)
    ELSE MultipartResponse_poll_A(future, working, inq[future.of] # <<>>,
                                  SubSeq(inq[future.of], 1, n), e)

PollNow_B ==
    IF future.kind = "send"
    THEN MultipartRequest_poll_B(future, state, oneshot, send_buffer)
    ELSE MultipartResponse_poll_B(future, rstate, oneshot)

\* C13: a Core A future that has given up its socket returns Error::Reused
\* when polled again, whatever the native socket would do: nothing is sent,
\* nothing is read and the future is as before. Error::Reused is returned by
\* no other poll.
C13_ReusedAfterCompletion ==
    /\ (core = "A" /\ future.kind # "none" /\ future.sock = NoSock) =>
          \A w \in BOOLEAN, q \in 0..MaxQuota, n \in 0..Len(inq[future.of]),
             e \in Outcomes :
                LET r == PollNow_A(w, q, n, e)
                IN /\ r.res = "Reused"
                   /\ r.out = <<>>
                   /\ r.used = 0
                   /\ r.future = future
                   /\ r.multipart = working
    /\ ret.res = "Reused" => (core = "A" /\ future.sock = NoSock)

\* C13 witness: a Core A send future has put its whole multipart on a writable
\* socket, completed, and was polled again.
C13_Witness ==
    /\ core = "A"
    /\ future.kind = "send"
    /\ ~failed[future.of]
    /\ Len(wire[future.of]) = MaxFrames
    /\ pollout[future.of]
    /\ ret.res = "Reused"

\* The future has completed: it gave up its socket and no error ended it.
Completed_B ==
    /\ core = "B"
    /\ future.kind # "none"
    /\ future.sock = NoSock
    /\ state.tag # "Polling"
    /\ rstate.tag # "Polling"

\* C14: a Core B future that has completed returns the reuse error when it is
\* polled again: the poll does not panic and submits no request.
C14_ReusedNotPanic ==
    Completed_B => (PollNow_B.res = "Reused" /\ PollNow_B.reqs = <<>>)

\* C16: whenever a poll of a one-shot future returns NotReady the future still
\* holds the socket it was made with, and when it completes the handle it
\* yields is built from that socket.
C16_SocketKept ==
    ret.op = "poll" =>
       /\ ret.res = "NotReady" => future.sock = future.of
       /\ ret.res = "Ready" => ret.item[Len(ret.item)] = future.of

\* C16 witness: a Core B recv future made with socket 1 has completed with a
\* multipart of the peer, after a poll that returned NotReady.
C16_Witness ==
    /\ core = "B"
    /\ future.kind = "recv"
    /\ future.of = 1
    /\ ret.res = "Ready"
    /\ ret.item = <<NewMultipart(1, PeerFrames), 1>>

\* ======================================================================
\* Claims about the poll thread's handling of requests (SpecCancel)
\* ======================================================================

\* C21: the poll thread never aborts while replying to a send: whenever
\* Pollable::send_msg empties the send queue or meets a terminal send error a
\* send responder is stored, so its take().unwrap() finds one, also after
\* drop_inactive discarded the responder of a cancelled send whose multipart
\* was still queued.
C21_SendReplyNeverAborts ==
    pc # "panic"

\* C22: at every entry to the poll phase every registered socket with a
\* non-empty send queue is armed for write and every registered socket with a
\* stored receive responder is armed for read.
C22_ArmedForPendingWork ==
    pc = "poll" =>
       \A id \in DOMAIN sockets :
          /\ sockets[id].msg # <<>> => is_write(sockets[id].kind)
          /\ sockets[id].recv_responder # None => is_read(sockets[id].kind)

\* The send responder stored for socket id leaves the slot in this step
\* while its requester is still waiting.
SendResponderLeaves(id) ==
    /\ id \in DOMAIN sockets
    /\ id \in DOMAIN sockets'
    /\ sockets[id].send_responder # None
    /\ sockets'[id].send_responder # sockets[id].send_responder
    /\ oneshot[sockets[id].send_responder].rx = "live"

\* C23: an accepted SendMessage whose requester keeps waiting gets its reply:
\* the responder stored for it leaves the socket's slot only by being answered
\* (Sent or Error), never dropped unanswered, also when a second SendMessage
\* for the same socket is handled before the first is answered.
C23_SendAnsweredOnce ==
    [][\A id \in SockIds :
          SendResponderLeaves(id) =>
             oneshot'[sockets[id].send_responder].val.type \in {"Sent", "Error"}]_vars

\* The arm states a registered socket is in.
Arms == {sockets[id].kind : id \in DOMAIN sockets}

\* C24: from every arm state a socket reaches, read adds POLLIN and write adds
\* POLLOUT without removing the other direction, clear_read removes only
\* POLLIN and clear_write only POLLOUT, and each operation is idempotent.
C24_ArmTransitions ==
    \A kind \in Arms :
       /\ as_events(kind) \subseteq {"POLLIN", "POLLOUT"}
       /\ as_events(kind_read(kind)) = as_events(kind) \cup {"POLLIN"}
       /\ as_events(kind_write(kind)) = as_events(kind) \cup {"POLLOUT"}
       /\ as_events(kind_clear_read(kind)) = as_events(kind) \ {"POLLIN"}
       /\ as_events(kind_clear_write(kind)) = as_events(kind) \ {"POLLOUT"}
       /\ kind_read(kind_read(kind)) = kind_read(kind)
       /\ kind_write(kind_write(kind)) = kind_write(kind)
       /\ kind_clear_read(kind_clear_read(kind)) = kind_clear_read(kind)
       /\ kind_clear_write(kind_clear_write(kind)) = kind_clear_write(kind)

\* The requests of one type waiting on the channel for a registered socket.
Queued(type) ==
    {i \in DOMAIN chan : chan[i].type = type /\ chan[i].id \in DOMAIN sockets}

\* C25: handling SendMessage(id, m, k, reply) for a registered socket: with k
\* or more multiparts queued the poll thread replies Full(m) and leaves the
\* queue, the arm and the stored send responder as they are; otherwise it
\* appends m to the queue, arms the socket for write and stores reply as the
\* send responder.
C25_SendMessageHandling ==
    \A i \in Queued("SendMessage") :
       LET req == chan[i]
           p == sockets[req.id]
           h == handle_request(req)
           p1 == h.sockets[req.id]
       IN IF Len(p.msg) >= req.bs
          THEN /\ h.sockets = sockets
               /\ h.os = Deliver(oneshot, req.resp, Response("Full", req.m))
          ELSE /\ p1.msg = Append(p.msg, req.m)
               /\ is_write(p1.kind)
               /\ p1.send_responder = req.resp
               /\ p1.pending_recv_msg = p.pending_recv_msg
               /\ p1.recv_responder = p.recv_responder
               /\ h.os[req.resp] = oneshot[req.resp]

\* C25 witness: of two sends with buffer_size 1 the first is queued with its
\* responder stored and the second has been answered Full with its multipart.
C25_Witness ==
    /\ send_buffer = 1
    /\ Len(oneshot) = 2
    /\ sockets[0].msg = <<NewMultipart(1, 1)>>
    /\ sockets[0].send_responder = 1
    /\ oneshot[2].val = Response("Full", NewMultipart(2, 1))

Received == {o \in DOMAIN oneshot : oneshot[o].val.type = "Received"}

\* C27: every complete multipart the poll thread has read from socket 0 was
\* delivered on a reply channel or waits in pending_recv_msg; none is
\* discarded, also when the receive is cancelled between drop_inactive and the
\* read. (The peer's multiparts are single frames here, so what the native
\* socket still holds counts multiparts.)
C27_NoMultipartDiscarded ==
    0 \in DOMAIN sockets =>
       delivered = Len(inq[0]) + Len(sockets[0].pending_recv_msg) + Cardinality(Received)

\* A step of PollThread::poll.
PollRound == pc = "poll" /\ pc' # "poll"

\* C29: in a poll round where a socket armed for both directions comes back
\* writable and readable, only its send action runs: the socket is left as
\* Pollable::send_msg leaves it, and nothing is read from the native socket,
\* answered to the receive responder or put on pending_recv_msg.
C29_SendFirst ==
    [][PollRound =>
          \A id \in Writable \cap Readable :
             /\ \E q \in 0..MaxQuota, e \in Outcomes :
                   sockets'[id] = send_msg_B(sockets[id], q, e).p
             /\ inq'[id] = inq[id]
             /\ sockets'[id].pending_recv_msg = sockets[id].pending_recv_msg
             /\ sockets'[id].recv_responder = sockets[id].recv_responder
             /\ \A o \in DOMAIN oneshot :
                   oneshot'[o].val.type = "Received" => oneshot[o].val = oneshot'[o].val]_vars

\* C29 witness: the poll thread enters poll with socket 0 armed SendRecv, a
\* multipart queued for sending on a writable socket, a receive responder
\* stored and the peer's multipart in the native queue.
C29_Witness ==
    /\ pc = "poll"
    /\ 0 \in Writable \cap Readable
    /\ sockets[0].kind = "SendRecv"
    /\ sockets[0].msg # <<>>
    /\ sockets[0].recv_responder # None
    /\ oneshot[sockets[0].recv_responder].rx = "live"

\* The receives that wait: a responder stored for a requester that still holds
\* its RecvFuture, with a complete multipart in the native queue.
WaitingReceives ==
    {id \in DOMAIN sockets :
        /\ sockets[id].recv_responder # None
        /\ oneshot[sockets[id].recv_responder].rx = "live"
        /\ \E i \in DOMAIN inq[id] : ~inq[id][i].more}

\* No multipart waits in a send queue.
NothingToSend == \A id \in DOMAIN sockets : sockets[id].msg = <<>>

\* C30: a stored receive request whose native socket holds a complete
\* multipart gets answered, also when sends for the same socket arrive in
\* between: the poll thread is never left blocked in poll, with nothing on the
\* channel, nothing left to send and no wakeup on its way, while such a
\* receive waits.
C30_ReceiveAnswered ==
    (Blocked /\ Quiet /\ chan = <<>> /\ NothingToSend) => WaitingReceives = {}

\* ======================================================================
\* Claims about the order of received multiparts (SpecRecv)
\* ======================================================================

\* The number the peer gave the multipart m (that of its first frame).
Key(m) == m[1][1]

\* C28: the multiparts delivered to successive ReceiveMessage requests of one
\* socket, directly or from pending_recv_msg, come in the order the poll
\* thread read them, none twice: later requests carry later multiparts, and
\* what waits in pending_recv_msg is later still and in order.
C28_ReceiveOrder ==
    0 \in DOMAIN sockets =>
       LET q == sockets[0].pending_recv_msg
       IN /\ \A o1, o2 \in Received :
                o1 < o2 => Key(oneshot[o1].val.m) < Key(oneshot[o2].val.m)
          /\ \A i, j \in DOMAIN q : i < j => Key(q[i]) < Key(q[j])
          /\ \A o \in Received : \A i \in DOMAIN q : Key(oneshot[o].val.m) < Key(q[i])

\* C28 witness: two receive requests were answered, the first with the peer's
\* first multipart through the stored responder, the second with the next
\* multipart, which had waited in pending_recv_msg.
C28_Witness ==
    /\ Len(oneshot) = 2
    /\ oneshot[1].val = Response("Received", NewMultipart(1, PeerFrames))
    /\ oneshot[2].val = Response("Received", NewMultipart(2, PeerFrames))
    /\ pc = "recv"
    /\ sockets[0].recv_responder = None

\* ======================================================================
\* Claims about the drain phase and socket registration (SpecWake)
\* ======================================================================

\* PollThread::try_recv returns in this step.
LeavesTryRecv == pc = "recv" /\ pc' = "poll"

\* C31: a drain phase that finds the flag set handles every request on the
\* channel, oldest first, before poll is entered; it stops early only in the
\* phase that handles Done. So try_recv returns with requests left on the
\* channel only from the step that handled Done.
C31_DrainsAllRequests ==
    [][LeavesTryRecv =>
          \/ chan' = <<>>
          \/ (chan # <<>> /\ Head(chan).type = "Done")]_vars

\* ======================================================================
\* Claims about a receive round ended by EFSM (SpecDuplex)
\* ======================================================================

\* The sockets whose receive action a poll round entered now would run.
Receiving == {id \in DOMAIN sockets : to_action(id) = "Rcv"}

\* C32: a receive round that the native socket ends with EFSM leaves the
\* socket without its read arm and sends no Error to the receive requester;
\* the socket's send queue, write arm and send responder are as before. (A
\* round touches the Pollable of its own socket only.)
C32_ProtocolStateOnReceive ==
    pc = "poll" =>
       \A id \in Receiving :
          LET p == sockets[id]
              s == recv_msg(p, inq[id], "EFSM")
          IN /\ ~is_read(s.p.kind)
             /\ ReplyTypes(s) \subseteq {"Received"}
             /\ ~s.err
             /\ ~s.panic
             /\ s.p.msg = p.msg
             /\ is_write(s.p.kind) = is_write(p.kind)
             /\ s.p.send_responder = p.send_responder

\* C32 witness: poll is entered with socket 0 armed for both directions, not
\* writable, a multipart queued behind a stored send responder, a receive
\* responder stored and the peer's multipart to read.
C32_Witness ==
    /\ pc = "poll"
    /\ 0 \in Receiving
    /\ sockets[0].kind = "SendRecv"
    /\ sockets[0].msg # <<>>
    /\ sockets[0].send_responder # None
    /\ sockets[0].recv_responder # None

\* ======================================================================
\* Claims about the Core B sink's send state (SpecShared, SpecSink)
\* ======================================================================

\* The only place the sink's task is registered for a wake-up is the
\* oneshot::Receiver of a SendFuture polled NotReady, which the send state then
\* keeps as Running; a reply, or the drop of the responder, notifies it.
WakeupRegistered == state.tag = "Running"

\* C33: after a Full reply the send state is Pending with the refused
\* multipart and the poll returns NotReady, and the task is woken so that the
\* multipart is submitted again: a poll_complete that returns NotReady leaves
\* the task with a wake-up registered.
C33_FullIsRetried ==
    (core = "B" /\ ret.op = "poll_complete" /\ ret.res = "NotReady") => WakeupRegistered

\* Where the multipart m the sink accepted is: in the sink's queue, in its
\* send state, in a SendMessage on the channel, in the poll thread's queue
\* (whole or its unsent frames), in a Full reply not yet taken, or on the wire
\* up to its last frame.
InSink(m) ==
    \/ \E j \in DOMAIN multiparts : multiparts[j] = m
    \/ state.tag = "Pending" /\ state.m = m
InFlight_B(m) ==
    \/ \E j \in DOMAIN chan : chan[j].type = "SendMessage" /\ chan[j].m = m
    \/ \E id \in DOMAIN sockets : \E j \in DOMAIN sockets[id].msg :
          sockets[id].msg[j] # <<>> /\ sockets[id].msg[j][1][1] = m[1][1]
    \/ \E o \in DOMAIN oneshot :
          oneshot[o].rx = "live" /\ oneshot[o].val = Response("Full", m)
    \/ \E j \in DOMAIN wire[0] : wire[0][j].data = m[Len(m)]

\* C34: poll_complete seeds the send state from the queue only when its flush
\* left the state Ready, never over a Pending or Running state, and so the
\* sink drops no multipart start_send accepted: until the native socket
\* returns a terminal error each one is in the sink, on its way, or sent.
C34_SeedsOnlyWhenReady ==
    core = "B" =>
       /\ LET t == poll_flush(state, oneshot, 0, send_buffer)
              r == poll_complete_B(state, multiparts, oneshot, 0, send_buffer)
          IN r.multiparts # multiparts => (t.res = "Ready" /\ t.state = StReady)
       /\ ~failed[0] => \A i \in DOMAIN accepted :
                           InSink(accepted[i]) \/ InFlight_B(accepted[i])

\* C34 witness: the sink's multipart came back with a Full reply and rests in
\* the send state as Pending, the other sender's multipart having been sent.
C34_Witness ==
    /\ core = "B"
    /\ ~failed[0]
    /\ Len(accepted) = 1
    /\ state = SendState("Pending", accepted[1], None)
    /\ ret.op = "poll_complete"
    /\ wire[0] # <<>>

\* The ids whose SockId reached the requester of their Init.
HandedOut == {id \in SockIds : \E o \in DOMAIN oneshot : oneshot[o].val = Response("SockId", <<id>>)}

\* C35: a socket registered by an Init whose requester is gone is removed
\* again (the undelivered SockId is dropped, which sends DropSocket): the poll
\* thread is never left blocked in poll, with no wakeup on its way, with a
\* socket in its map whose SockId was never handed out.
C35_VanishedInitRemoved ==
    (Blocked /\ Quiet) => DOMAIN sockets \subseteq HandedOut

\* The reply channels that carry a SockId.
Handles == {o \in DOMAIN oneshot : oneshot[o].val.type = "SockId"}

\* C36: socket ids come from a counter that only grows: every id in the
\* socket map, every id handed out and every id dropped is below the counter,
\* the ids handed out are pairwise distinct, and an id that was dropped is not
\* in the map again.
C36_SocketIds ==
    /\ \A id \in DOMAIN sockets \cup removed \cup HandedOut : id < next_sock_id
    /\ \A o1, o2 \in Handles : oneshot[o1].val = oneshot[o2].val => o1 = o2
    /\ Cardinality(DOMAIN sockets \cup removed) <= next_sock_id
    /\ removed \cap DOMAIN sockets = {}

\* C36 witness: two Inits were answered with ids 0 and 1, and socket 0 was
\* dropped and removed while socket 1 stays registered.
C36_Witness ==
    /\ next_sock_id = 2
    /\ HandedOut = {0, 1}
    /\ removed = {0}
    /\ DOMAIN sockets = {1}


\* ======================================================================
\* Claims about the readiness handling of tokio-zmq (SpecOneShot)
\* ======================================================================

\* What the next poll of the tokio-zmq future does on the native socket and on
\* the reactor, when the native socket takes q frames or hands over n frames
\* and then answers e.
Attempt_A(q, n, e) ==
    LET s == future.of
    IN IF future.kind = "send"
       THEN request_poll(working, pollout[s], q, e)
       ELSE response_poll(working, inq[s] # <<>>, SubSeq(inq[s], 1, n), e)

\* C37: on every send or recv attempt of tokio-zmq the reactor is armed for the
\* requested direction before the event mask is read; the native send or recv
\* is attempted only when the mask has the requested direction set; otherwise
\* the readiness of that direction is cleared and the attempt returns NotReady
\* with the multipart untouched.
C37_ReadinessReconciled ==
    (core = "A" /\ future.sock # NoSock) =>
        \A q \in 0..MaxQuota, n \in 0..Len(inq[future.of]), e \in Outcomes :
            LET send == future.kind = "send"
                r == Attempt_A(q, n, e)
                bit == IF send THEN pollout[future.of] ELSE inq[future.of] # <<>>
                arm == IF send THEN "file.poll_write_ready" ELSE "file.poll_read_ready"
                native == IF send THEN "send" ELSE "recv"
                clear == IF send THEN "clear_write_ready" ELSE "clear_read_ready"
            IN /\ r.calls[1] = arm
               /\ r.calls[2] = "get_events"
               /\ (\E i \in DOMAIN r.calls : r.calls[i] = native) => bit
               /\ ~bit => /\ r.calls = <<arm, "get_events", clear>>
                          /\ r.res = "NotReady"
                          /\ IF send THEN r.rest = working /\ r.out = <<>>
                                     ELSE r.multipart = working /\ r.used = 0

\* A send future of tokio-zmq was polled while the mask had no POLLOUT, and
\* is to be polled again.
C37_Witness ==
    /\ core = "A"
    /\ future.kind = "send"
    /\ future.sock # NoSock
    /\ ret.op = "poll"
    /\ ret.res = "NotReady"
    /\ ~pollout[future.of]
    /\ working # <<>>


\* C38: after a send attempt of tokio-zmq that returns Ready, and after a recv
\* attempt that returns Ready, the current task has been notified, so that it
\* is polled again without a new readiness edge.
C38_SelfScheduled ==
    (core = "A" /\ ret.op = "poll" /\ ret.res = "Ready") => ret.notified


\* ======================================================================
\* Claims about the duplex of tokio-zmq (SpecSinkStream)
\* ======================================================================

\* A step that is a poll of the stream arm.
StreamPolled ==
    /\ ret'.op = "poll"
    /\ <<ret, working, yielded, failed, stream_task>>'
           # <<ret, working, yielded, failed, stream_task>>

\* A step that is a call of the sink arm that reaches the readiness check.
SinkPolled ==
    /\ ret'.op \in {"start_send", "poll_complete"}
    /\ <<ret, pending, wire, failed, nextId>>' # <<ret, pending, wire, failed, nextId>>
    /\ pending # <<>>

C40_ArmsRegister ==
    core = "A" =>
        /\ ret.op \in {"start_send", "poll_complete"} => sink_task # None
        /\ ret.op = "poll" => stream_task # None

====
